---- MODULE Spec2Model ----
(***************************************************************************)
(* TikTok Watch Indexer: the background service worker (background.js) and *)
(* the content script (content.js).                                        *)
(*                                                                         *)
(* Text is a sequence of UTF-16 code units (naturals).  The four IndexedDB *)
(* object stores are finite maps.  One IndexedDB transaction is one atomic *)
(* step: a handler keeps its transaction alive across the awaits on its    *)
(* own requests, and read-write transactions with overlapping scope are    *)
(* serialised by the store.                                                *)
(***************************************************************************)
EXTENDS Integers, Sequences, FiniteSets, TLC

(***************************************************************************)
(* Bounds of the model.                                                    *)
(***************************************************************************)
\* The clock (Date.now()) runs from 0 to MaxNow.
MaxNow == 2
\* Handler invocations that may be suspended between two transactions.
MaxInFlight == 2
\* cleanupOldFrames calls that may be suspended between their two transactions.
MaxCleanups == 1
\* The saveThumbnail calls of SpecThumbnails.
MaxSaves == 4
\* The last instant of the clock in SpecContent.
MaxContentNow == 1
\* The frames the content script of SpecContent captures.
MaxFrames == 2
MaxTimeouts == 2
MaxWrites == 2
MaxCalls == 2
MaxRestarts == 1
\* The length of the texts handed to extractTokens.
MaxTextLen == 5

(***************************************************************************)
(* Texts used as inputs (code units).                                      *)
(*   224 a-grave, 225 a-acute, 193 A-acute, 273 d-stroke, 272 D-stroke,    *)
(*   7887 o-hook, 7886 O-hook, 7865 e-dot-below                            *)
(***************************************************************************)
\* "123"
Id123 == <<49, 50, 51>>
\* "7"
Id7 == <<55>>
\* "alice"
TxtAlice == <<97, 108, 105, 99, 101>>
\* "bo"
TxtBo == <<98, 111>>
\* "#fashion"
TxtFashion == <<35, 102, 97, 115, 104, 105, 111, 110>>
\* "áo đỏ đẹp quá"
TxtAoDoDepQua == <<225, 111, 32, 273, 7887, 32, 273, 7865, 112, 32, 113, 117, 225>>
\* "ao do"
TxtAoDo == <<97, 111, 32, 100, 111>>
\* "Áo  a" (upper case, accent, two spaces, a one-letter word)
TxtAoA == <<193, 111, 32, 32, 97>>
\* "do"
TxtDo == <<100, 111>>
\* "đỏ"
TxtDoAccented == <<273, 7887>>
\* "xyz"
TxtXyz == <<120, 121, 122>>
\* "ao"
TxtAo == <<97, 111>>
\* "Do"
TxtDoUpper == <<68, 111>>
\* "áo do ao" (a repeated token after normalisation)
TxtAoDoAo == <<225, 111, 32, 100, 111, 32, 97, 111>>

(***************************************************************************)
(* normalizeText / extractTokens                                           *)
(***************************************************************************)
\* String.prototype.toLowerCase on one code unit.
toLowerCaseChar(c) ==
    IF c >= 65 /\ c <= 90 THEN c + 32
    ELSE IF c = 193 THEN 225
    ELSE IF c = 272 THEN 273
    ELSE IF c = 7886 THEN 7887
    ELSE c

toLowerCase(text) == [i \in 1..Len(text) |-> toLowerCaseChar(text[i])]

\* Unicode canonical decomposition of one code unit.  U+0111 (d with stroke)
\* has no canonical decomposition.
canonicalDecomposition(c) ==
    CASE c = 224  -> <<97, 768>>
      [] c = 225  -> <<97, 769>>
      [] c = 7865 -> <<101, 803>>
      [] c = 7887 -> <<111, 777>>
      [] OTHER    -> <<c>>

RECURSIVE normalizeNFD(_)
normalizeNFD(text) ==
    IF text = <<>> THEN <<>>
    ELSE canonicalDecomposition(Head(text)) \o normalizeNFD(Tail(text))

\* .replace(/[̀-ͯ]/g, '')
removeDiacritics(text) == SelectSeq(text, LAMBDA c : ~(c >= 768 /\ c <= 879))

\* \s of a JavaScript regular expression (the code units the model uses).
isWhitespace(c) == c \in {9, 10, 11, 12, 13, 32, 160}

\* .split(/\s+/): the pieces between maximal runs of whitespace; a leading or
\* trailing run leaves an empty piece.
RECURSIVE splitWhitespace(_, _, _)
splitWhitespace(text, i, cur) ==
    IF i > Len(text) THEN <<cur>>
    ELSE IF isWhitespace(text[i])
         THEN IF i > 1 /\ isWhitespace(text[i - 1])
              THEN splitWhitespace(text, i + 1, cur)
              ELSE <<cur>> \o splitWhitespace(text, i + 1, <<>>)
         ELSE splitWhitespace(text, i + 1, Append(cur, text[i]))

normalizeText(text) ==
    IF text = <<>> THEN <<>>
    ELSE SelectSeq(splitWhitespace(removeDiacritics(normalizeNFD(toLowerCase(text))), 1, <<>>),
                   LAMBDA token : Len(token) > 0)

Range(s) == {s[i] : i \in 1..Len(s)}

\* Mutant of addTokens: one-letter tokens are kept.
RECURSIVE addTokensKeepShort(_, _)
addTokensKeepShort(normalized, tokens) ==
    IF normalized = <<>> THEN tokens
    ELSE LET token == Head(normalized)
         IN  addTokensKeepShort(Tail(normalized),
                                IF token \notin Range(tokens)
                                THEN Append(tokens, token) ELSE tokens)

\* tokens.add(token) for every normalised token of length >= 2, in order of
\* first occurrence (a Set keeps insertion order).
RECURSIVE addTokens(_, _)
addTokens(normalized, tokens) ==
    IF normalized = <<>> THEN tokens
    ELSE LET token == Head(normalized)
         IN  addTokens(Tail(normalized),
                       IF Len(token) >= 2 /\ token \notin Range(tokens)
                       THEN Append(tokens, token) ELSE tokens)

extractTokens(text) == addTokens(normalizeText(text), <<>>)

\* Array.prototype.join(' ')
RECURSIVE join(_)
join(parts) ==
    IF parts = <<>> THEN <<>>
    ELSE IF Len(parts) = 1 THEN parts[1]
    ELSE parts[1] \o <<32>> \o join(Tail(parts))

(***************************************************************************)
(* Finite maps (object stores keyed by their key path).                    *)
(***************************************************************************)
Put(store, key, value) ==
    [k \in DOMAIN store \cup {key} |-> IF k = key THEN value ELSE store[k]]

Delete(store, keys) == [k \in DOMAIN store \ keys |-> store[k]]

EmptyStore == [k \in {} |-> 0]

(***************************************************************************)
(* updateInvertedIndex: one read-write transaction on the invertedIndex    *)
(* store; for each token a get followed by a put.                          *)
(***************************************************************************)
\* Mutant of updateInvertedIndex: the id is pushed without the includes test.
RECURSIVE updateInvertedIndexNoCheck(_, _, _)
updateInvertedIndexNoCheck(index, videoId, tokens) ==
    IF tokens = <<>> THEN index
    ELSE LET token == Head(tokens)
             next  == IF token \in DOMAIN index
                      THEN Put(index, token, Append(index[token], videoId))
                      ELSE Put(index, token, <<videoId>>)
         IN  updateInvertedIndexNoCheck(next, videoId, Tail(tokens))

\* Mutant of updateInvertedIndex: the posting is written without the entry
\* that was read, so the last writer's list wins.
RECURSIVE updateInvertedIndexOverwrite(_, _, _)
updateInvertedIndexOverwrite(index, videoId, tokens) ==
    IF tokens = <<>> THEN index
    ELSE updateInvertedIndexOverwrite(Put(index, Head(tokens), <<videoId>>), videoId,
                                      Tail(tokens))

RECURSIVE updateInvertedIndex(_, _, _)
updateInvertedIndex(index, videoId, tokens) ==
    IF tokens = <<>> THEN index
    ELSE LET token == Head(tokens)
             next  == IF token \in DOMAIN index
                      THEN IF videoId \in Range(index[token])
                           THEN index
                           ELSE Put(index, token, Append(index[token], videoId))
                      ELSE Put(index, token, <<videoId>>)
         IN  updateInvertedIndex(next, videoId, Tail(tokens))

\* Mutant of allText: the caption is left out.
allTextNoCaption(videoData) == join(videoData.hashtags \o <<videoData.author>>)

\* The text saveVideo indexes: caption, hashtags and author joined by spaces.
allText(videoData) ==
    join(<<videoData.caption>> \o videoData.hashtags \o <<videoData.author>>)

(***************************************************************************)
(* searchVideos: one read-only transaction over invertedIndex and videos.  *)
(***************************************************************************)
\* videoIdScores.set(id, (videoIdScores.get(id) || 0) + 1): a Map keeps the
\* position of a key that is set again.
scoreSet(scores, id) ==
    IF \E i \in 1..Len(scores) : scores[i][1] = id
    THEN [i \in 1..Len(scores) |->
             IF scores[i][1] = id THEN <<id, scores[i][2] + 1>> ELSE scores[i]]
    ELSE Append(scores, <<id, 1>>)

RECURSIVE scoreIds(_, _)
scoreIds(scores, ids) ==
    IF ids = <<>> THEN scores
    ELSE scoreIds(scoreSet(scores, Head(ids)), Tail(ids))

RECURSIVE collectScores(_, _, _)
collectScores(index, queryTokens, scores) ==
    IF queryTokens = <<>> THEN scores
    ELSE LET token == Head(queryTokens)
         IN  collectScores(index, Tail(queryTokens),
                           IF token \in DOMAIN index
                           THEN scoreIds(scores, index[token])
                           ELSE scores)

\* The entries of the Map videoIdScores, in insertion order.
videoIdScores(index, queryTokens) == collectScores(index, queryTokens, <<>>)

\* Mutant of compareScore: ascending.
compareScoreAscending(a, b) == a[2] - b[2]

\* The comparator of the sort: (a, b) => b[1] - a[1].
compareScore(a, b) == b[2] - a[2]

\* Array.prototype.sort is stable: insert each entry after the entries it
\* does not precede.
RECURSIVE insertSorted(_, _)
insertSorted(sorted, e) ==
    IF sorted = <<>> THEN <<e>>
    ELSE IF compareScore(Head(sorted), e) <= 0
         THEN <<Head(sorted)>> \o insertSorted(Tail(sorted), e)
         ELSE <<e>> \o sorted

RECURSIVE sortEntries(_, _)
sortEntries(entries, sorted) ==
    IF entries = <<>> THEN sorted
    ELSE sortEntries(Tail(entries), insertSorted(sorted, Head(entries)))

sortedIds(index, queryTokens) ==
    LET s == sortEntries(videoIdScores(index, queryTokens), <<>>)
    IN  [i \in 1..Len(s) |-> s[i][1]]

\* Mutant of searchVideos: the loop over the sorted ids ends at the first id
\* without a record.
RECURSIVE presentPrefix(_, _)
presentPrefix(vids, ids) ==
    IF ids = <<>> \/ Head(ids) \notin DOMAIN vids THEN <<>>
    ELSE <<vids[Head(ids)]>> \o presentPrefix(vids, Tail(ids))

searchVideosUntilMissing(vids, index, query) ==
    LET queryTokens == extractTokens(query)
    IN  IF Len(queryTokens) = 0 THEN <<>>
        ELSE presentPrefix(vids, sortedIds(index, queryTokens))

\* The result of searchVideos(query): the stored records of the sorted ids.
searchVideos(vids, index, query) ==
    LET queryTokens == extractTokens(query)
    IN  IF Len(queryTokens) = 0 THEN <<>>
        ELSE LET ids  == sortedIds(index, queryTokens)
                 kept == SelectSeq(ids, LAMBDA id : id \in DOMAIN vids)
             IN  [i \in 1..Len(kept) |-> vids[kept[i]]]

(***************************************************************************)
(* Program constants, in the units of the model.                           *)
(***************************************************************************)
\* 30 * 24 * 60 * 60 * 1000 ms; one tick of the model's clock is 30 days.
ThirtyDays == 1
CAPTURE_INTERVAL == 2
\* MAX_THUMBS_PER_VIDEO (500 in the source), scaled down.
MAX_THUMBS_PER_VIDEO == 2

(***************************************************************************)
(* Keys.                                                                   *)
(***************************************************************************)
\* Number to decimal string, as a template literal formats it.
RECURSIVE decimal(_)
decimal(n) == IF n < 10 THEN <<48 + n>> ELSE decimal(n \div 10) \o <<48 + (n % 10)>>

\* `${videoId}:${Date.now()}`
frameKey(videoId, ts) == videoId \o <<58>> \o decimal(ts)
\* `${id}:thumb:${Date.now()}`
thumbKey(videoId, ts) == videoId \o <<58, 116, 104, 117, 109, 98, 58>> \o decimal(ts)

\* Order of IndexedDB string keys: by code unit, a proper prefix first.
RECURSIVE keyLess(_, _)
keyLess(a, b) ==
    IF b = <<>> THEN FALSE
    ELSE IF a = <<>> THEN TRUE
    ELSE IF Head(a) # Head(b) THEN Head(a) < Head(b)
    ELSE keyLess(Tail(a), Tail(b))

(***************************************************************************)
(* The state.                                                              *)
(***************************************************************************)
VARIABLES
    now,            \* Date.now()
    videos,         \* object store 'videos', keyed by id
    frames,         \* object store 'frames', keyed by key
    thumbnails,     \* object store 'thumbnails', keyed by key
    invertedIndex,  \* object store 'invertedIndex': token -> ids
    indexing,       \* saveVideo calls that wrote the video and await updateInvertedIndex
    framesToStore,  \* saveFrame calls that built frameToStore and await the put
    cleanups,       \* thirtyDaysAgo of each cleanupOldFrames call between its two transactions
    reply,          \* the last value handed to sendResponse
    thumbsSaved,    \* history: the thumbData of the saveThumbnail calls, in call order
    page,           \* content script: the video the page shows
    lastAuthor,     \* content script: lastAuthor (<<>> is null)
    isProcessing,   \* content script: isProcessing
    indexedVideoIds, \* content script: indexedVideoIds
    activeCapture,  \* content script: activeCapture (video, id, lastTime)
    checking,       \* content script: where the running checkVideo call is suspended
    pixels,         \* colorUtils: the pixels extractPixels handed to medianCut
    numColors,      \* colorUtils: medianCut's numColors
    boxes,          \* colorUtils: medianCut's boxes
    colors,         \* colorUtils: what medianCut returned
    colorResults,   \* colorUtils: what detectColors returned
    colorStep,      \* colorUtils: where the detectColors call is
    popupAt,        \* popup: "closed", "idle", or "colors" inside displayResultsWithColors
    isColor,        \* popup: isColor of the last performSearch
    popupVideos,    \* popup: the videos of the last response, with what the color step added
    popupNext,      \* popup: the position in videosToProcess of the next video
    sent,           \* the action names the popup and colorUtils have sent
    checkDBSizeAt,  \* where the checkDBSize call is, with its frameCount
    hidden,         \* content script: document.hidden
    isRunning,      \* content script: isRunning
    activeIntervalId, \* content script: whether activeIntervalId holds a live interval
    timeouts,       \* content script: the pending setTimeout(checkVideo, 2000) callbacks
    intervals,      \* content script: the live setInterval(checkVideo, CHECK_INTERVAL_MS) timers
    settings,       \* chrome.storage.sync: what saveSettings stored (NoSettings: nothing yet)
    form,           \* options page: the toggle and the texts of the input fields
    writes,         \* the number of chrome.storage.sync.set calls made
    db,             \* worker: the handle db, "null" or "open"
    startup,        \* worker: the initDB() call of the startup code
    calls,          \* worker: the calls of public operations under way, up to their first db.transaction
    restarts,       \* the number of times the worker was restarted
    analyzing,      \* worker: the analyzeSavedFrame calls that have read their frame
    textInput,      \* the text handed to extractTokens next
    tokenized,      \* the last extractTokens call: its text and the tokens it returned
    thumbQueue,     \* worker: the saveThumbnail calls whose transaction waits for its turn
    clearing,       \* worker: the number of stores the running clearAllData call has cleared (0: no call)
    events,         \* content script: the page events that were dispatched (DOMContentLoaded, load)
    inits,          \* content script: the init() calls that await the response to GET_ALL_VIDEOS
    listeners,      \* content script: the visibilitychange listeners init() has added
    dispatching,    \* content script: the listeners the visibilitychange being dispatched has yet to run
    checks          \* content script: the checkVideo calls past the isProcessing guard that have not returned

\* The state of the background worker and the state of the content script.
workerVars == <<now, videos, frames, thumbnails, invertedIndex, indexing, framesToStore,
                cleanups, reply>>
contentVars == <<page, lastAuthor, isProcessing, indexedVideoIds, activeCapture, checking>>

\* The state of the popup page, colorUtils included.
popupVars == <<pixels, numColors, boxes, colors, colorResults, colorStep,
               popupAt, isColor, popupVideos, popupNext, sent>>

\* The state of the checkDBSize call.
quotaVars == <<checkDBSizeAt>>

\* The visibility of the tab and the timers of the content script.
lifecycleVars == <<hidden, isRunning, activeIntervalId, timeouts, intervals>>

\* The settings the options page stores.
settingsVars == <<settings, form, writes>>

\* The handle of the worker and the calls that need it.
handleVars == <<db, startup, calls, restarts>>

\* The analyzeSavedFrame calls under way.
analyzeVars == <<analyzing>>

\* The input and the result of extractTokens.
tokenizerVars == <<textInput, tokenized>>

\* The saveThumbnail calls under way.
queueVars == <<thumbQueue>>

\* The position of the clearAllData call.
clearVars == <<clearing>>

\* The page events, the init() calls and the checkVideo calls of the content script.
pollVars == <<events, inits, listeners, dispatching, checks>>

vars == <<workerVars, thumbsSaved, contentVars, popupVars, quotaVars, lifecycleVars, settingsVars,
          handleVars, analyzeVars, tokenizerVars, queueVars, clearVars, pollVars>>

\* What the listener hands to sendResponse, with the action and the data of
\* the message it answers: { success, message } or { success, error }, and
\* the videos of a SEARCH response.
Response(action, data, success, message, vids) ==
    [action |-> action, data |-> data, success |-> success, message |-> message,
     videos |-> vids]

InFlight == Cardinality(indexing) + Cardinality(framesToStore)

\* What the content script finds on the page: the author of the active
\* video's article, the kind of URL the share menu yields ("video" holds
\* /video/<id>, "short" is a short link), the caption and the hashtags.
\* NoPage is a page without an active video.
NoPage == [author |-> <<>>, url |-> "none", id |-> <<>>, caption |-> <<>>, hashtags |-> <<>>]

\* let activeCapture = { video: null, id: null, listener: null, lastTime: 0 }:
\* time 0 is the epoch, before every instant of the model's clock.
NoCapture == [video |-> NoPage, id |-> <<>>, lastTime |-> -1]

\* The position of checkVideo: "init" until init() has started the polling,
\* "idle" between calls, else the await the running call is suspended at,
\* with the page and the video id it works on.
CheckVideoAt(at, p, videoId) == [at |-> at, page |-> p, videoId |-> videoId]

\* The position of checkDBSize: "start" before the count, "cleanup" before
\* the frames transaction of cleanupOldFrames, "thumbs" before its thumbnails
\* transaction, "done" once it has returned.  frameCount is the local of
\* that name (-1 before the count); remaining is history: the number of
\* frames the frames transaction left (-1 while it has not run).
CheckDBSizeAt(at, frameCount, remaining) ==
    [at |-> at, frameCount |-> frameCount, remaining |-> remaining]

\* chrome.storage.sync before the first saveSettings: no key is stored.
NoSettings == [k \in {} |-> 0]

\* The options page after loadSettings has read an empty storage: the
\* defaults true, 5 and 0.7; the fields hold text.
LoadedForm == [enableFrameCapture |-> TRUE, frameCap |-> <<53>>, webpQuality |-> <<48, 46, 55>>]

InitIndexer ==
    /\ now = 0
    /\ videos = EmptyStore
    /\ frames = EmptyStore
    /\ thumbnails = EmptyStore
    /\ invertedIndex = EmptyStore
    /\ indexing = {}
    /\ framesToStore = {}
    /\ cleanups = <<>>
    /\ reply = Response("none", <<>>, TRUE, "", <<>>)
    /\ thumbsSaved = <<>>
    /\ page = NoPage
    /\ lastAuthor = <<>>
    /\ isProcessing = FALSE
    /\ indexedVideoIds = {}
    /\ activeCapture = NoCapture
    /\ checking = CheckVideoAt("init", NoPage, <<>>)
    /\ checkDBSizeAt = CheckDBSizeAt("start", -1, -1)
    /\ hidden = FALSE
    /\ isRunning = FALSE
    /\ activeIntervalId = FALSE
    /\ timeouts = 0
    /\ intervals = 0
    /\ settings = NoSettings
    /\ form = LoadedForm
    /\ writes = 0
    /\ db = "null"
    /\ startup = "opening"
    /\ calls = {}
    /\ restarts = 0
    /\ analyzing = {}
    /\ textInput = <<>>
    /\ tokenized = [text |-> <<>>, tokens |-> <<>>]
    /\ thumbQueue = <<>>
    /\ clearing = 0
    /\ events = {}
    /\ inits = 0
    /\ listeners = 0
    /\ dispatching = 0
    /\ checks = 0

\* The popup is closed.
InitPopup ==
    /\ popupAt = "closed"
    /\ isColor = FALSE
    /\ popupVideos = <<>>
    /\ popupNext = 1
    /\ sent = {}

\* No detectColors call has been made.
Init ==
    /\ InitIndexer
    /\ InitPopup
    /\ pixels = <<>>
    /\ numColors = 0
    /\ boxes = <<>>
    /\ colors = <<>>
    /\ colorResults = <<>>
    /\ colorStep = "idle"

(***************************************************************************)
(* saveVideo                                                               *)
(***************************************************************************)
\* Mutant of saveVideoStart: no test for an existing record.
saveVideoStartNoCheck(videoData, putOk) ==
    IF putOk
    THEN /\ InFlight < MaxInFlight
         /\ videos' = Put(videos, videoData.id, videoData)
         /\ indexing' = indexing \cup {videoData}
         /\ UNCHANGED reply
    ELSE /\ reply' = Response("SAVE_VIDEO", videoData, FALSE, "error", <<>>)
         /\ UNCHANGED <<videos, indexing>>

\* The first transaction (videos, invertedIndex): get by id, and put unless
\* a record exists.  putOk = FALSE is a put request that fails (StoreError):
\* the rejection reaches the listener's catch.
saveVideoStart(videoData, putOk) ==
    IF videoData.id \in DOMAIN videos
    THEN /\ reply' = Response("SAVE_VIDEO", videoData, TRUE, "Video already indexed", <<>>)
         /\ UNCHANGED <<videos, indexing>>
    ELSE IF putOk
    THEN /\ InFlight < MaxInFlight
         /\ videos' = Put(videos, videoData.id, videoData)
         /\ indexing' = indexing \cup {videoData}
         /\ UNCHANGED reply
    ELSE /\ reply' = Response("SAVE_VIDEO", videoData, FALSE, "error", <<>>)
         /\ UNCHANGED <<videos, indexing>>

SaveVideoBegin(videoData, putOk) ==
    /\ saveVideoStart(videoData, putOk)
    /\ UNCHANGED <<now, frames, thumbnails, invertedIndex, framesToStore, cleanups>>

\* The tokens saveVideo hands to updateInvertedIndex.
videoTokens(videoData) == extractTokens(allText(videoData))

\* The second transaction (invertedIndex), then the response.
SaveVideoIndex(videoData) ==
    /\ videoData \in indexing
    /\ invertedIndex' = updateInvertedIndex(invertedIndex, videoData.id, videoTokens(videoData))
    /\ indexing' = indexing \ {videoData}
    /\ reply' = Response("SAVE_VIDEO", videoData, TRUE, "Video saved", <<>>)
    /\ UNCHANGED <<now, videos, frames, thumbnails, framesToStore, cleanups>>

(***************************************************************************)
(* SEARCH                                                                  *)
(***************************************************************************)
Search(query) ==
    /\ reply' = Response("SEARCH", query, TRUE, "",
                        searchVideos(videos, invertedIndex, query))
    /\ UNCHANGED <<now, videos, frames, thumbnails, invertedIndex, indexing, framesToStore,
                   cleanups>>

(***************************************************************************)
(* saveFrame                                                               *)
(***************************************************************************)
NoAnalysis == [text |-> <<>>, labels |-> <<>>, objects |-> <<>>]

\* The conversion of frameData.blob, by the kind of value that arrived.
\* "Absent" skips the conversion (blobData stays null); "Object" is a plain
\* object without byteLength.
blobToArrayBuffer(blob) ==
    CASE blob = "Absent"      -> "null"
      [] blob = "Blob"        -> "ArrayBuffer"
      [] blob = "ArrayBuffer" -> "ArrayBuffer"
      [] blob = "ByteLength"  -> "ByteLength"
      [] blob = "Array"       -> "ArrayBuffer"
      [] OTHER                -> "invalid"

RECURSIVE addAllTokens(_, _)
addAllTokens(texts, tokens) ==
    IF texts = <<>> THEN tokens
    ELSE addAllTokens(Tail(texts), addTokens(extractTokens(Head(texts)), tokens))

\* The tokens of an analysis: those of its text, labels and objects.
analysisTokens(analysis) ==
    addAllTokens(<<analysis.text>> \o analysis.labels \o analysis.objects, <<>>)

\* saveFrame up to its last transaction: the conversion, the settings read,
\* the vision call and the index update it triggers.  analysed = TRUE is an
\* enabled analysis that returned a result; FALSE is analysis switched off,
\* a settings read that threw, or a vision call that returned null.
\* indexOk = FALSE is an updateInvertedIndex that rejected: its transaction
\* is rolled back and the catch around the analysis swallows the error,
\* after frameToStore.analysis was assigned.
saveFrameStart(frameData, analysed, indexOk, analysis) ==
    LET blobData == blobToArrayBuffer(frameData.blob)
        frameToStore == [key |-> frameData.key, videoId |-> frameData.videoId,
                         ts |-> frameData.ts, blobData |-> blobData,
                         hasAnalysis |-> analysed,
                         analysis |-> IF analysed THEN analysis ELSE NoAnalysis]
    IN  IF blobData = "invalid"
        THEN /\ reply' = Response("SAVE_FRAME", frameData.key, FALSE, "Invalid blob type", <<>>)
             /\ UNCHANGED <<invertedIndex, framesToStore>>
        ELSE /\ InFlight < MaxInFlight
             /\ analysed => blobData # "null"
             /\ invertedIndex' = IF analysed /\ indexOk
                                 THEN updateInvertedIndex(invertedIndex, frameData.videoId,
                                                          analysisTokens(analysis))
                                 ELSE invertedIndex
             /\ framesToStore' = framesToStore \cup {frameToStore}
             /\ UNCHANGED reply

SaveFrameBegin(frameData, analysed, indexOk, analysis) ==
    /\ saveFrameStart(frameData, analysed, indexOk, analysis)
    /\ UNCHANGED <<now, videos, frames, thumbnails, indexing, cleanups>>

\* The transaction on frames: put, then the response.
SaveFramePut(frameToStore, putOk) ==
    /\ frameToStore \in framesToStore
    /\ framesToStore' = framesToStore \ {frameToStore}
    /\ IF putOk
       THEN /\ frames' = Put(frames, frameToStore.key, frameToStore)
            /\ reply' = Response("SAVE_FRAME", frameToStore.key, TRUE, "", <<>>)
       ELSE /\ UNCHANGED frames
            /\ reply' = Response("SAVE_FRAME", frameToStore.key, FALSE, "error", <<>>)
    /\ UNCHANGED <<now, videos, thumbnails, invertedIndex, indexing, cleanups>>

(***************************************************************************)
(* saveThumbnail: one transaction on thumbnails.                           *)
(***************************************************************************)
\* index.getAll(videoId)
thumbsOf(thumbs, videoId) == {k \in DOMAIN thumbs : thumbs[k].videoId = videoId}

\* Mutant of thumbBefore: the comparator b.ts - a.ts.
thumbBeforeDescending(a, b) == a.ts > b.ts \/ (a.ts = b.ts /\ keyLess(a.key, b.key))

\* a sorts before b in existing.sort((a, b) => a.ts - b.ts): the sort is
\* stable and getAll returns the records in key order.
thumbBefore(a, b) == a.ts < b.ts \/ (a.ts = b.ts /\ keyLess(a.key, b.key))

\* The keys of the first n records of the sorted array.
RECURSIVE oldestKeys(_, _, _)
oldestKeys(thumbs, keys, n) ==
    IF n <= 0 \/ keys = {} THEN {}
    ELSE LET first == CHOOSE k \in keys :
                          \A o \in keys \ {k} : thumbBefore(thumbs[k], thumbs[o])
         IN  {first} \cup oldestKeys(thumbs, keys \ {first}, n - 1)

\* Mutant of saveThumbnail: the limit test is existing.length >
\* MAX_THUMBS_PER_VIDEO.
saveThumbnailAboveLimit(thumbs, thumbData) ==
    LET existing == thumbsOf(thumbs, thumbData.videoId)
        toRemove == IF Cardinality(existing) > MAX_THUMBS_PER_VIDEO
                    THEN oldestKeys(thumbs, existing,
                                    Cardinality(existing) - MAX_THUMBS_PER_VIDEO + 1)
                    ELSE {}
    IN  Put(Delete(thumbs, toRemove), thumbData.key, thumbData)

saveThumbnail(thumbs, thumbData) ==
    LET existing == thumbsOf(thumbs, thumbData.videoId)
        toRemove == IF Cardinality(existing) >= MAX_THUMBS_PER_VIDEO
                    THEN oldestKeys(thumbs, existing,
                                    Cardinality(existing) - MAX_THUMBS_PER_VIDEO + 1)
                    ELSE {}
    IN  Put(Delete(thumbs, toRemove), thumbData.key, thumbData)

SaveThumbnail(thumbData) ==
    /\ thumbnails' = saveThumbnail(thumbnails, thumbData)
    /\ reply' = Response("SAVE_THUMBNAIL", thumbData.key, TRUE, "", <<>>)
    /\ UNCHANGED <<now, videos, frames, invertedIndex, indexing, framesToStore, cleanups>>

(***************************************************************************)
(* cleanupOldFrames: a transaction on frames, then one on thumbnails.      *)
(***************************************************************************)
\* Mutant of upperBoundKeys: IDBKeyRange.lowerBound(bound).
upperBoundKeysLower(store, bound) == {k \in DOMAIN store : store[k].ts >= bound}

\* Mutant of upperBoundKeys: the cursor is opened without a range.
upperBoundKeysUnbounded(store, bound) == DOMAIN store

\* The keys a cursor over index 'ts' with IDBKeyRange.upperBound(bound)
\* visits: the bound itself is in the range.
upperBoundKeys(store, bound) == {k \in DOMAIN store : store[k].ts <= bound}

\* Mutant of CleanupFrames: the items of the deleted frames and the postings
\* are deleted with them.
CleanupFramesAndItems ==
    /\ Len(cleanups) < MaxCleanups
    /\ LET thirtyDaysAgo == now - ThirtyDays
           deleted == upperBoundKeys(frames, thirtyDaysAgo)
       IN  /\ frames' = Delete(frames, deleted)
           /\ videos' = Delete(videos, {frames[k].videoId : k \in deleted} \cap DOMAIN videos)
           /\ invertedIndex' = IF deleted = {} THEN invertedIndex ELSE EmptyStore
           /\ cleanups' = Append(cleanups, thirtyDaysAgo)
    /\ UNCHANGED <<now, thumbnails, indexing, framesToStore, reply>>

CleanupFrames ==
    /\ Len(cleanups) < MaxCleanups
    /\ LET thirtyDaysAgo == now - ThirtyDays
       IN  /\ frames' = Delete(frames, upperBoundKeys(frames, thirtyDaysAgo))
           /\ cleanups' = Append(cleanups, thirtyDaysAgo)
    /\ UNCHANGED <<now, videos, thumbnails, invertedIndex, indexing, framesToStore, reply>>

CleanupThumbnails(i) ==
    /\ i \in 1..Len(cleanups)
    /\ thumbnails' = Delete(thumbnails, upperBoundKeys(thumbnails, cleanups[i]))
    /\ cleanups' = SubSeq(cleanups, 1, i - 1) \o SubSeq(cleanups, i + 1, Len(cleanups))
    /\ UNCHANGED <<now, videos, frames, invertedIndex, indexing, framesToStore, reply>>

(***************************************************************************)
(* The clock.                                                              *)
(***************************************************************************)
Tick(max) ==
    /\ now < max
    /\ now' = now + 1
    /\ UNCHANGED <<videos, frames, thumbnails, invertedIndex, indexing, framesToStore,
                   cleanups, reply>>

(***************************************************************************)
(* The messages of the model.                                              *)
(***************************************************************************)
Item123 == [id |-> Id123, author |-> TxtAlice, caption |-> TxtAoDoDepQua,
            hashtags |-> <<TxtFashion>>]
Item7 == [id |-> Id7, author |-> TxtBo, caption |-> TxtAoDo, hashtags |-> <<>>]
Item7Again == [id |-> Id7, author |-> TxtBo, caption |-> TxtAoA, hashtags |-> <<TxtDo>>]

VideoInputs == {Item123, Item7, Item7Again}

\* An analysis whose text and label share a token with the captions.
AnalysisAoDo == [text |-> TxtAo, labels |-> <<TxtDoUpper, TxtAo>>, objects |-> <<>>]

FrameData(videoId, ts, blob) ==
    [key |-> frameKey(videoId, ts), videoId |-> videoId, ts |-> ts, blob |-> blob]

ThumbData(videoId, ts) == [key |-> thumbKey(videoId, ts), videoId |-> videoId, ts |-> ts]

\* A thumbnail whose key was formed at keyTime and whose ts is ts.
ThumbDataAt(videoId, keyTime, ts) ==
    [key |-> thumbKey(videoId, keyTime), videoId |-> videoId, ts |-> ts]

\* "a" and "a o": queries without a token of two letters.
TxtA == <<97>>
TxtAO == <<97, 32, 111>>

\* The queries the SEARCH messages of the model carry.
Queries == {TxtAoDo, TxtA}

(***************************************************************************)
(* Spec: the background worker.  Its clients send videos, frames and       *)
(* thumbnails captured at time 0, and queries, in any order, while the     *)
(* clock advances and cleanups run.                                        *)
(***************************************************************************)
\* The variables no handler of the worker writes.
outside == <<thumbsSaved, contentVars, popupVars, quotaVars, lifecycleVars, settingsVars,
             handleVars, analyzeVars, tokenizerVars, queueVars, clearVars, pollVars>>

Next ==
    \/ \E videoData \in VideoInputs, putOk \in BOOLEAN :
           SaveVideoBegin(videoData, putOk) /\ UNCHANGED outside
    \/ \E videoData \in indexing : SaveVideoIndex(videoData) /\ UNCHANGED outside
    \/ \E blob \in {"Array", "Object"}, analysed \in BOOLEAN :
           SaveFrameBegin(FrameData(Id7, 0, blob), analysed, TRUE, AnalysisAoDo) /\ UNCHANGED outside
    \/ \E frameToStore \in framesToStore, putOk \in BOOLEAN :
           SaveFramePut(frameToStore, putOk) /\ UNCHANGED outside
    \/ SaveThumbnail(ThumbData(Id7, 0)) /\ UNCHANGED outside
    \/ CleanupFrames /\ UNCHANGED outside
    \/ \E i \in 1..Len(cleanups) : CleanupThumbnails(i) /\ UNCHANGED outside
    \/ \E query \in Queries : Search(query) /\ UNCHANGED outside
    \/ Tick(MaxNow) /\ UNCHANGED outside

Spec == Init /\ [][Next]_vars

(***************************************************************************)
(* Properties of ingestion and search (Spec).                              *)
(***************************************************************************)
\* No handler is suspended between two transactions: every operation that
\* started has completed.
Quiescent == indexing = {} /\ framesToStore = {} /\ cleanups = <<>>

search(query) == searchVideos(videos, invertedIndex, query)

\* The queries the properties range over.
\* " \t"
TxtBlank == <<32, 9>>
\* "á" (one letter once its accent is stripped)
TxtAAccented == <<225>>
\* "Áo ĐỎ" (upper case and accents)
TxtAoDoUpper == <<193, 111, 32, 272, 7886>>
AllQueries == {TxtDo, TxtAoDo, TxtDoAccented, TxtXyz, TxtAo, TxtAoDoAo, TxtAoDoDepQua,
               TxtAoA, TxtA, TxtAO, TxtBlank, TxtAAccented, <<>>}

\* The tokens of each query.
tokensOfQuery == [query \in AllQueries |-> extractTokens(query)]

\* The number of distinct query tokens whose posting contains id.
matchCount(id, query) ==
    Cardinality({t \in Range(tokensOfQuery[query]) :
                    t \in DOMAIN invertedIndex /\ id \in Range(invertedIndex[t])})

\* The position of the record of id in a result (0 when absent).
position(result, id) ==
    IF \E i \in 1..Len(result) : result[i].id = id
    THEN CHOOSE i \in 1..Len(result) : result[i].id = id
    ELSE 0

\* C1: a saveVideo call for an id that has a record leaves that record as it
\* is (one record per id, equal to the first payload), starts no indexing,
\* and its response "Video already indexed", a success, comes with no write
\* to any store.
SaveVideoIdempotent ==
    [][ /\ \A id \in DOMAIN videos : id \in DOMAIN videos' /\ videos'[id] = videos[id]
        /\ \A videoData \in indexing' \ indexing : videoData.id \notin DOMAIN videos
        /\ (reply' # reply /\ reply'.action = "SAVE_VIDEO"
                /\ reply'.data.id \in DOMAIN videos /\ reply'.data \notin indexing)
           => /\ reply'.success /\ reply'.message = "Video already indexed"
              /\ UNCHANGED <<videos, frames, thumbnails, invertedIndex, indexing>>
      ]_vars

\* C1 witness: the second call for id 7, with another payload, was answered
\* "Video already indexed" and the record is the first payload.
SaveVideoIdempotentWitness ==
    /\ reply.action = "SAVE_VIDEO" /\ reply.message = "Video already indexed"
    /\ reply.data = Item7Again
    /\ Id7 \in DOMAIN videos /\ videos[Id7] = Item7
    /\ indexing = {}

EndToEndSearchExample ==
    (DOMAIN videos = {Id123} /\ videos[Id123] = Item123 /\ indexing = {}
        /\ DOMAIN invertedIndex = Range(videoTokens(Item123)))
    => /\ search(TxtDo) = <<Item123>>
       /\ search(TxtXyz) = <<>>

\* The base letter of an accented letter (the letters the model uses).
baseLetter(c) ==
    CASE c = 193  -> 65
      [] c = 224  -> 97
      [] c = 225  -> 97
      [] c = 272  -> 68
      [] c = 273  -> 100
      [] c = 7865 -> 101
      [] c = 7886 -> 79
      [] c = 7887 -> 111
      [] OTHER    -> c

unaccent(text) == [i \in 1..Len(text) |-> baseLetter(text[i])]

\* C4 (as claimed): a query and the query with every accented letter replaced
\* by its base letter return the same results.
DiacriticInsensitive ==
    \A query \in AllQueries \cup {TxtAoDoUpper} : search(query) = search(unaccent(query))

\* C5: an item matched by strictly more distinct query tokens than another
\* is in the result, before the other one if that one is there.
ScoreOrdering ==
    \A query \in AllQueries :
        LET result == search(query)
        IN  \A a \in DOMAIN videos, b \in DOMAIN videos :
                matchCount(a, query) > matchCount(b, query)
                => /\ position(result, a) > 0
                   /\ position(result, b) > 0 => position(result, a) < position(result, b)

\* C5 witness: item 123 was indexed first and matches one of the two tokens of
\* "ao do", item 7 matches both, and the search answered item 7 first.
ScoreOrderingWitness ==
    /\ reply.action = "SEARCH" /\ reply.data = TxtAoDo
    /\ reply.videos = <<Item7, Item123>>
    /\ TxtAo \in DOMAIN invertedIndex /\ invertedIndex[TxtAo] = <<Id123, Id7>>
    /\ search(TxtAoDo) = reply.videos

\* C6: the score of an item is the number of distinct query tokens whose
\* posting contains it, at most the number of distinct query tokens; a result
\* holds an item at most once and no item that no query token matches.
ScoreIsMatchCount ==
    \A query \in AllQueries :
        LET scores == videoIdScores(invertedIndex, tokensOfQuery[query])
            result == search(query)
        IN  /\ \A i \in 1..Len(scores) :
                   /\ scores[i][2] = matchCount(scores[i][1], query)
                   /\ scores[i][2] <= Len(tokensOfQuery[query])
            /\ \A i \in 1..Len(result), j \in 1..Len(result) :
                   result[i].id = result[j].id => i = j
            /\ \A i \in 1..Len(result) : matchCount(result[i].id, query) >= 1

\* C6 witness: item 7 was indexed from its caption and again from the
\* analysis of one of its frames, which supplies the same tokens; a search
\* for "ao do" answered it.
ScoreIsMatchCountWitness ==
    /\ Id7 \in DOMAIN videos /\ videos[Id7] = Item7 /\ indexing = {}
    /\ \E k \in DOMAIN frames : frames[k].videoId = Id7 /\ frames[k].hasAnalysis
    /\ reply.action = "SEARCH" /\ reply.data = TxtAoDo
    /\ reply.videos = <<Item7>>
    /\ videoIdScores(invertedIndex, extractTokens(TxtAoDo)) = <<<<Id7, 2>>>>

\* The queries that normalise to no token: empty, blank, or only one-letter
\* words.
EmptyQueries == {<<>>, <<32>>, TxtBlank, TxtA, TxtAAccented, TxtAO}

\* C7: a query without tokens returns an empty result, whatever is stored.
EmptyQueryEmptyResult == \A query \in EmptyQueries : search(query) = <<>>

\* C7 witness: a search for "a" answered nothing while item 7, whose caption
\* holds the word "a", is stored and indexed.
EmptyQueryEmptyResultWitness ==
    /\ reply.action = "SEARCH" /\ reply.data = TxtA /\ reply.videos = <<>>
    /\ Id7 \in DOMAIN videos /\ videos[Id7] = Item7Again /\ indexing = {}
    /\ search(TxtA) = <<>>

(***************************************************************************)
(* Properties of retention (Spec).                                         *)
(***************************************************************************)
\* cleanups without its i-th element.
without(i) == SubSeq(cleanups, 1, i - 1) \o SubSeq(cleanups, i + 1, Len(cleanups))

\* C8 (as claimed): the frames transaction of a cleanup with horizon
\* H = now - 30 days leaves no frame with ts < H and removes no frame with
\* ts >= H, ts = H included; its thumbnails transaction does the same to the
\* thumbnails.
RetentionCorrect ==
    [][ /\ Len(cleanups') > Len(cleanups)
           => LET H == now - ThirtyDays
              IN  /\ \A k \in DOMAIN frames' : frames'[k].ts >= H
                  /\ \A k \in DOMAIN frames : frames[k].ts >= H => k \in DOMAIN frames'
        /\ \A i \in 1..Len(cleanups) :
               (cleanups' = without(i) /\ thumbnails' # thumbnails)
               => LET H == cleanups[i]
                  IN  /\ \A k \in DOMAIN thumbnails' : thumbnails'[k].ts >= H
                      /\ \A k \in DOMAIN thumbnails :
                             thumbnails[k].ts >= H => k \in DOMAIN thumbnails'
      ]_vars

(***************************************************************************)
(* SpecThumbnails: saveThumbnail called with thumbnails of two items, each *)
(* call with a key of its own and a ts of any value.                       *)
(***************************************************************************)
\* The positions in thumbsSaved of the calls for videoId.
savedFor(videoId) == {i \in 1..Len(thumbsSaved) : thumbsSaved[i].videoId = videoId}

SaveThumbnailCall(videoId, ts) ==
    LET thumbData == ThumbDataAt(videoId, Cardinality(savedFor(videoId)), ts)
    IN  /\ Len(thumbsSaved) < MaxSaves
        /\ SaveThumbnail(thumbData)
        /\ thumbsSaved' = Append(thumbsSaved, thumbData)
        /\ UNCHANGED <<contentVars, popupVars, quotaVars, lifecycleVars, settingsVars,
                       handleVars, analyzeVars, tokenizerVars, queueVars, clearVars, pollVars>>

NextThumbnails ==
    \E videoId \in {Id7, Id123}, ts \in 0..MaxNow : SaveThumbnailCall(videoId, ts)

SpecThumbnails == Init /\ [][NextThumbnails]_vars

distinctKeys(videoId) ==
    \A i \in savedFor(videoId), j \in savedFor(videoId) :
        i # j => thumbsSaved[i].key # thumbsSaved[j].key

\* The stored thumbnails of videoId are MAX_THUMBS_PER_VIDEO of those saved,
\* and no saved one that is not stored has a larger ts than a stored one.
keepsLargest(videoId) ==
    /\ Cardinality(thumbsOf(thumbnails, videoId)) = MAX_THUMBS_PER_VIDEO
    /\ \A k \in thumbsOf(thumbnails, videoId) :
           \E i \in savedFor(videoId) : thumbsSaved[i] = thumbnails[k]
    /\ \A i \in savedFor(videoId) :
           thumbsSaved[i].key \notin DOMAIN thumbnails
           => \A k \in thumbsOf(thumbnails, videoId) : thumbsSaved[i].ts <= thumbnails[k].ts

\* C9 (as claimed): after more than MAX_THUMBS_PER_VIDEO saveThumbnail calls
\* with distinct keys for one item, with timestamps in any order, exactly
\* MAX_THUMBS_PER_VIDEO thumbnails remain for it, those with the largest ts.
ThumbnailCapLargest ==
    \A videoId \in {Id7, Id123} :
        (distinctKeys(videoId) /\ Cardinality(savedFor(videoId)) > MAX_THUMBS_PER_VIDEO)
        => keepsLargest(videoId)

\* The calls for videoId came with timestamps that never decrease.
nonDecreasing(videoId) ==
    \A i \in savedFor(videoId), j \in savedFor(videoId) :
        i < j => thumbsSaved[i].ts <= thumbsSaved[j].ts

\* C9 (amended): after more than MAX_THUMBS_PER_VIDEO saveThumbnail calls
\* with distinct keys for one item whose timestamps never decrease from one
\* call to the next, exactly MAX_THUMBS_PER_VIDEO thumbnails remain for it,
\* those with the largest ts.
ThumbnailCapNewest ==
    \A videoId \in {Id7, Id123} :
        (distinctKeys(videoId) /\ nonDecreasing(videoId)
            /\ Cardinality(savedFor(videoId)) > MAX_THUMBS_PER_VIDEO)
        => keepsLargest(videoId)

\* C9 witness: one call more than the cap for item 7, two of them with the
\* same ts, and a call for item 123 in between; item 7 keeps the last
\* MAX_THUMBS_PER_VIDEO thumbnails and item 123 its own.
ThumbnailCapNewestWitness ==
    /\ Len(thumbsSaved) = MAX_THUMBS_PER_VIDEO + 2
    /\ Cardinality(savedFor(Id7)) = MAX_THUMBS_PER_VIDEO + 1
    /\ thumbsSaved[2].videoId = Id123
    /\ nonDecreasing(Id7)
    /\ thumbsSaved[1].ts = 0 /\ thumbsSaved[3].ts = 0
    /\ thumbsSaved[Len(thumbsSaved)].ts = MaxNow
    /\ thumbsSaved[1].key \notin DOMAIN thumbnails
    /\ Cardinality(thumbsOf(thumbnails, Id7)) = MAX_THUMBS_PER_VIDEO
    /\ Cardinality(thumbsOf(thumbnails, Id123)) = 1

(***************************************************************************)
(* The content script.                                                     *)
(***************************************************************************)
\* A video with a URL that holds /video/7, and one whose URL is a short link.
PageBo == [author |-> TxtBo, url |-> "video", id |-> Id7, caption |-> TxtAoDo,
           hashtags |-> <<>>]
PageAlice == [author |-> TxtAlice, url |-> "short", id |-> <<>>, caption |-> TxtAoDoDepQua,
              hashtags |-> <<TxtFashion>>]
Pages == {PageBo, PageAlice}

Idle == CheckVideoAt("idle", NoPage, <<>>)

\* `${author}-${Date.now()}`
shortLinkId(author, t) == author \o <<45>> \o decimal(t)

\* The data of the SAVE_VIDEO message.
videoDataOf(p, videoId) ==
    [id |-> videoId, author |-> p.author, caption |-> p.caption, hashtags |-> p.hashtags]

\* The value of activeCapture after updateCaptureState(video, videoId).
updateCaptureState(video, videoId) ==
    IF activeCapture.video = video /\ activeCapture.id = videoId
    THEN activeCapture
    ELSE [video |-> video, id |-> videoId, lastTime |-> -1]

\* start() without its isRunning test.
startUnguarded ==
    /\ isRunning' = TRUE
    /\ timeouts' = timeouts + 1
    /\ intervals' = intervals + 1
    /\ activeIntervalId' = TRUE

\* start(): unless the polling runs already, checkVideo is scheduled once
\* after 2 seconds and then every CHECK_INTERVAL_MS.
start ==
    IF isRunning
    THEN UNCHANGED <<isRunning, activeIntervalId, timeouts, intervals>>
    ELSE /\ isRunning' = TRUE
         /\ timeouts' = timeouts + 1
         /\ intervals' = intervals + 1
         /\ activeIntervalId' = TRUE

\* stop(): unless the polling is stopped already, the interval
\* activeIntervalId holds is cleared; a pending setTimeout callback is not.
stop ==
    IF ~isRunning
    THEN UNCHANGED <<isRunning, activeIntervalId, timeouts, intervals>>
    ELSE /\ isRunning' = FALSE
         /\ intervals' = IF activeIntervalId THEN intervals - 1 ELSE intervals
         /\ activeIntervalId' = FALSE
         /\ UNCHANGED timeouts

\* init(): the ids GET_ALL_VIDEOS answers are added to indexedVideoIds
\* (ok = FALSE: the message failed), then start() begins the polling,
\* whatever document.hidden is, and the visibilitychange listener is added.
ContentInit(ok) ==
    /\ checking.at = "init"
    /\ indexedVideoIds' = IF ok THEN indexedVideoIds \cup DOMAIN videos ELSE indexedVideoIds
    /\ checking' = Idle
    /\ start
    /\ UNCHANGED hidden
    /\ UNCHANGED <<page, lastAuthor, isProcessing, activeCapture>>
    /\ UNCHANGED <<workerVars, thumbsSaved>>

\* The user scrolls to another video, or to a place without one.
ShowVideo(p) ==
    /\ p # page
    /\ page' = p
    /\ UNCHANGED <<lastAuthor, isProcessing, indexedVideoIds, activeCapture, checking>>
    /\ UNCHANGED <<workerVars, thumbsSaved>>

\* The MutationObserver of init() sees another location.href.
LocationChanged ==
    /\ checking.at # "init"
    /\ lastAuthor' = <<>>
    /\ UNCHANGED <<page, isProcessing, indexedVideoIds, activeCapture, checking>>
    /\ UNCHANGED <<workerVars, thumbsSaved>>

\* checkVideo up to `await getVideoUrl(container)`.
CheckVideoStart ==
    /\ checking.at = "idle"
    /\ ~isProcessing
    /\ page # NoPage
    /\ page.author # lastAuthor
    /\ lastAuthor' = page.author
    /\ isProcessing' = TRUE
    /\ checking' = CheckVideoAt("getVideoUrl", page, <<>>)
    /\ UNCHANGED <<page, indexedVideoIds, activeCapture>>
    /\ UNCHANGED <<workerVars, thumbsSaved>>

\* checkVideo from the URL to the SAVE_VIDEO message, which the worker's
\* listener receives and whose first transaction it runs; found = FALSE is
\* getVideoUrl answering null.
CheckVideoUrl(found, putOk) ==
    /\ checking.at = "getVideoUrl"
    /\ LET p == checking.page
           videoId == IF p.url = "video" THEN p.id ELSE shortLinkId(p.author, now)
           indexedAs == IF p.url = "video" THEN p.id ELSE p.author
       IN  IF ~found
           THEN /\ isProcessing' = FALSE
                /\ checking' = Idle
                /\ UNCHANGED <<indexedVideoIds, activeCapture, workerVars>>
           ELSE IF indexedAs \in indexedVideoIds
           THEN /\ activeCapture' = updateCaptureState(p, videoId)
                /\ isProcessing' = FALSE
                /\ checking' = Idle
                /\ UNCHANGED <<indexedVideoIds, workerVars>>
           ELSE /\ indexedVideoIds' = indexedVideoIds \cup {indexedAs}
                /\ activeCapture' = updateCaptureState(p, videoId)
                /\ SaveVideoBegin(videoDataOf(p, videoId), putOk)
                /\ checking' = CheckVideoAt("saveVideo", p, videoId)
                /\ UNCHANGED isProcessing
    /\ UNCHANGED <<page, lastAuthor, thumbsSaved>>

\* checkVideo after the response to SAVE_VIDEO: saveThumbnail (thumb = FALSE
\* is getThumbnail answering null), then the finally block.
CheckVideoSaved(thumb) ==
    /\ checking.at = "saveVideo"
    /\ \A videoData \in indexing : videoData.id # checking.videoId
    /\ IF thumb
       THEN SaveThumbnail(ThumbData(checking.videoId, now))
       ELSE UNCHANGED workerVars
    /\ isProcessing' = FALSE
    /\ checking' = Idle
    /\ UNCHANGED <<page, lastAuthor, indexedVideoIds, activeCapture, thumbsSaved>>

\* onTimeUpdate and the captureFrame it awaits, up to the worker's receipt
\* of SAVE_FRAME.  The captured video is the one the page shows (the others
\* are paused).  CAPTURE_INTERVAL is shorter than a tick of the clock:
\* within one tick, elapsed says whether it has passed since lastTime.
onTimeUpdate(intervalPassed, analysed) ==
    /\ Cardinality(DOMAIN frames) + Cardinality(framesToStore) < MaxFrames
    /\ activeCapture.id # <<>>
    /\ activeCapture.video = page
    /\ intervalPassed
    /\ activeCapture' = [activeCapture EXCEPT !.lastTime = now]
    /\ SaveFrameBegin(FrameData(activeCapture.id, now, "Array"), analysed, TRUE, AnalysisAoDo)
    /\ UNCHANGED <<page, lastAuthor, isProcessing, indexedVideoIds, checking, thumbsSaved>>

OnTimeUpdate(elapsed, analysed) ==
    onTimeUpdate(activeCapture.lastTime < now \/ elapsed, analysed)

(***************************************************************************)
(* SpecContent: one tab's content script and the background worker.        *)
(***************************************************************************)
NextContent ==
    \/ \E ok \in BOOLEAN : ContentInit(ok)
           /\ UNCHANGED <<popupVars, quotaVars, settingsVars, handleVars, analyzeVars,
                          tokenizerVars, queueVars, clearVars, pollVars>>
    \/ \E p \in Pages \cup {NoPage} : ShowVideo(p)
           /\ UNCHANGED <<popupVars, quotaVars, lifecycleVars, settingsVars, handleVars,
                          analyzeVars, tokenizerVars, queueVars, clearVars, pollVars>>
    \/ LocationChanged
           /\ UNCHANGED <<popupVars, quotaVars, lifecycleVars, settingsVars, handleVars,
                          analyzeVars, tokenizerVars, queueVars, clearVars, pollVars>>
    \/ CheckVideoStart
           /\ UNCHANGED <<popupVars, quotaVars, lifecycleVars, settingsVars, handleVars,
                          analyzeVars, tokenizerVars, queueVars, clearVars, pollVars>>
    \/ \E found \in BOOLEAN, putOk \in BOOLEAN :
           CheckVideoUrl(found, putOk)
                  /\ UNCHANGED <<popupVars, quotaVars, lifecycleVars, settingsVars, handleVars,
                                 analyzeVars, tokenizerVars, queueVars, clearVars, pollVars>>
    \/ \E thumb \in BOOLEAN : CheckVideoSaved(thumb)
           /\ UNCHANGED <<popupVars, quotaVars, lifecycleVars, settingsVars, handleVars,
                          analyzeVars, tokenizerVars, queueVars, clearVars, pollVars>>
    \/ \E elapsed \in BOOLEAN : OnTimeUpdate(elapsed, FALSE)
           /\ UNCHANGED <<popupVars, quotaVars, lifecycleVars, settingsVars, handleVars,
                          analyzeVars, tokenizerVars, queueVars, clearVars, pollVars>>
    \/ \E videoData \in indexing : SaveVideoIndex(videoData) /\ UNCHANGED outside
    \/ \E frameToStore \in framesToStore, putOk \in BOOLEAN :
           SaveFramePut(frameToStore, putOk) /\ UNCHANGED outside
    \/ Tick(MaxContentNow) /\ UNCHANGED outside

SpecContent == Init /\ [][NextContent]_vars

\* C10 (as claimed): every stored frame's videoId is the id of a stored item.
FrameReferentialIntegrity ==
    \A k \in DOMAIN frames : frames[k].videoId \in DOMAIN videos

(***************************************************************************)
(* Properties of concurrent ingestion (Spec).                              *)
(***************************************************************************)
\* The saveVideo calls for id that wrote the record and have not indexed yet.
writersOf(id) == {videoData \in indexing : videoData.id = id}

\* C11: of the saveVideo calls for one id that are in flight together, at
\* most one writes the record and indexes: a call writes only when the id
\* has no record and no writer, the record it leaves is its own payload, and
\* a call that arrives while a writer is in flight is answered "Video
\* already indexed" and writes to no store.
AtMostOnceIngestion ==
    [][ /\ \A videoData \in indexing' \ indexing :
               /\ videoData.id \notin DOMAIN videos
               /\ writersOf(videoData.id) = {}
               /\ videos'[videoData.id] = videoData
        /\ \A id \in DOMAIN videos' : Cardinality({v \in indexing' : v.id = id}) <= 1
        /\ (reply' # reply /\ reply'.action = "SAVE_VIDEO"
                /\ writersOf(reply'.data.id) # {} /\ indexing' = indexing)
           => /\ reply'.success /\ reply'.message = "Video already indexed"
              /\ UNCHANGED <<videos, frames, thumbnails, invertedIndex>>
      ]_vars

\* C11 witness: a second SAVE_VIDEO for id 7, with another payload, was
\* answered "Video already indexed" while the first call, which wrote the
\* record, has not indexed its tokens yet.
AtMostOnceIngestionWitness ==
    /\ Item7 \in indexing
    /\ reply.action = "SAVE_VIDEO" /\ reply.message = "Video already indexed"
    /\ reply.data = Item7Again
    /\ videos[Id7] = Item7
    /\ \A token \in DOMAIN invertedIndex : Id7 \notin Range(invertedIndex[token])

(***************************************************************************)
(* SpecRace: saveVideo calls for items 123 and 7, whose captions share the *)
(* token "ao".  No call updates the index before both have written their   *)
(* record, so the two updateInvertedIndex calls are in flight together in  *)
(* every run; frames of item 7 are analysed meanwhile.                     *)
(***************************************************************************)
RaceInputs == {Item123, Item7}

NextRace ==
    \/ \E videoData \in RaceInputs, putOk \in BOOLEAN :
           SaveVideoBegin(videoData, putOk) /\ UNCHANGED outside
    \/ \E videoData \in indexing :
           /\ \A other \in RaceInputs : other.id \in DOMAIN videos
           /\ SaveVideoIndex(videoData)
           /\ UNCHANGED outside
    \/ \E analysed \in BOOLEAN :
           SaveFrameBegin(FrameData(Id7, now, "Array"), analysed, TRUE, AnalysisAoDo)
           /\ UNCHANGED outside
    \/ \E frameToStore \in framesToStore, putOk \in BOOLEAN :
           SaveFramePut(frameToStore, putOk) /\ UNCHANGED outside
    \/ \E query \in Queries : Search(query) /\ UNCHANGED outside
    \/ Tick(MaxNow) /\ UNCHANGED outside

SpecRace == Init /\ [][NextRace]_vars

\* The tokens two saveVideo calls both index.
sharedTokens(a, b) == Range(videoTokens(a)) \cap Range(videoTokens(b))

\* The index once the suspended call of first and then that of second have
\* run updateInvertedIndex.
indexAfter(first, second) ==
    updateInvertedIndex(updateInvertedIndex(invertedIndex, first.id, videoTokens(first)),
                        second.id, videoTokens(second))

BlobKinds == {"Absent", "Blob", "ArrayBuffer", "ByteLength", "Array", "Object"}

NextFrames ==
    \/ \E blob \in BlobKinds, analysed \in BOOLEAN, indexOk \in BOOLEAN :
           SaveFrameBegin(FrameData(Id7, now, blob), analysed, indexOk, AnalysisAoDo)
           /\ UNCHANGED outside
    \/ \E frameToStore \in framesToStore, putOk \in BOOLEAN :
           SaveFramePut(frameToStore, putOk) /\ UNCHANGED outside
    \/ \E putOk \in BOOLEAN : SaveVideoBegin(Item7, putOk) /\ UNCHANGED outside
    \/ \E videoData \in indexing : SaveVideoIndex(videoData) /\ UNCHANGED outside
    \/ \E query \in Queries : Search(query) /\ UNCHANGED outside

SpecFrames == Init /\ [][NextFrames]_vars

\* C13: saveFrame stores a frame only when its image bytes arrived as a
\* Blob, an ArrayBuffer or an array of byte values: every frame that passed
\* the conversion, in the store or on its way to it, holds an ArrayBuffer
\* made from one of these; and a payload found invalid is answered with a
\* failure.
SnapshotPayloadValidation ==
    /\ \A frameToStore \in framesToStore \cup {frames[k] : k \in DOMAIN frames} :
           frameToStore.blobData = "ArrayBuffer"
    /\ (reply.action = "SAVE_FRAME" /\ reply.message = "Invalid blob type")
       => ~reply.success

\* C14: saveFrame attaches an analysis to the frame it is about to write
\* only when the whole analysis step succeeded, the index update it triggers
\* included: in the step that attaches an analysis the postings become those
\* updateInvertedIndex computes for the analysis tokens.
AnalysisFailureIsolation ==
    [][ \A frameToStore \in framesToStore' \ framesToStore :
            frameToStore.hasAnalysis
            => invertedIndex' = updateInvertedIndex(invertedIndex, frameToStore.videoId,
                                                    analysisTokens(frameToStore.analysis))
      ]_vars

(***************************************************************************)
(* colorUtils: median cut quantization and the nearest color name.  A      *)
(* pixel is [r, g, b] (the alpha read from the canvas is never used); a    *)
(* hex color '#RRGGBB' is the sequence of the values of its six digits; a  *)
(* name is the sequence of its UTF-16 code units.                          *)
(***************************************************************************)
MaxPixels == 5
MaxColors == 5

\* The lexicon, in the order Object.entries iterates it.
COLOR_NAMES == <<
    [name |-> <<273, 7887>>,
     hexColors |-> <<
        <<15, 15, 0, 0, 0, 0>>, <<13, 12, 1, 4, 3, 12>>, <<11, 2, 2, 2, 2, 2>>,
        <<8, 11, 0, 0, 0, 0>>, <<15, 15, 6, 3, 4, 7>>, <<15, 15, 4, 5, 0, 0>> >>],
    [name |-> <<104, 7891, 110, 103>>,
     hexColors |-> <<
        <<15, 15, 12, 0, 12, 11>>, <<15, 15, 6, 9, 11, 4>>, <<15, 15, 1, 4, 9, 3>>,
        <<15, 15, 11, 6, 12, 1>>, <<15, 15, 10, 0, 7, 10>> >>],
    [name |-> <<99, 97, 109>>,
     hexColors |-> <<
        <<15, 15, 10, 5, 0, 0>>, <<15, 15, 8, 12, 0, 0>>, <<15, 15, 7, 15, 5, 0>>,
        <<15, 15, 6, 3, 4, 7>> >>],
    [name |-> <<118, 224, 110, 103>>,
     hexColors |-> <<
        <<15, 15, 15, 15, 0, 0>>, <<15, 15, 13, 7, 0, 0>>, <<15, 15, 10, 5, 0, 0>>,
        <<15, 15, 13, 7, 0, 0>>, <<15, 15, 14, 1, 3, 5>> >>],
    [name |-> <<118, 224, 110, 103, 32, 110, 104, 7841, 116>>,
     hexColors |-> <<
        <<15, 15, 15, 15, 14, 0>>, <<15, 15, 15, 10, 12, 13>>, <<15, 15, 14, 15, 13, 5>> >>],
    [name |-> <<120, 97, 110, 104, 32, 108, 225>>,
     hexColors |-> <<
        <<0, 0, 15, 15, 0, 0>>, <<3, 2, 12, 13, 3, 2>>, <<2, 2, 8, 11, 2, 2>>,
        <<0, 0, 8, 0, 0, 0>>, <<0, 0, 15, 15, 7, 15>>, <<0, 0, 15, 10, 9, 10>> >>],
    [name |-> <<120, 97, 110, 104, 32, 108, 225, 32, 99, 226, 121>>,
     hexColors |-> <<
        <<0, 0, 15, 15, 0, 0>>, <<3, 2, 12, 13, 3, 2>>, <<2, 2, 8, 11, 2, 2>>,
        <<0, 0, 8, 0, 0, 0>> >>],
    [name |-> <<120, 97, 110, 104, 32, 108, 7909, 99>>,
     hexColors |-> <<
        <<0, 0, 15, 15, 0, 0>>, <<3, 2, 12, 13, 3, 2>>, <<2, 2, 8, 11, 2, 2>>,
        <<0, 0, 8, 0, 0, 0>> >>],
    [name |-> <<120, 97, 110, 104, 32, 100, 432, 417, 110, 103>>,
     hexColors |-> <<
        <<0, 0, 0, 0, 15, 15>>, <<4, 1, 6, 9, 14, 1>>, <<1, 14, 9, 0, 15, 15>>,
        <<0, 0, 0, 0, 12, 13>>, <<0, 0, 6, 6, 12, 12>> >>],
    [name |-> <<120, 97, 110, 104>>,
     hexColors |-> <<
        <<0, 0, 0, 0, 15, 15>>, <<4, 1, 6, 9, 14, 1>>, <<1, 14, 9, 0, 15, 15>>,
        <<0, 0, 0, 0, 12, 13>>, <<0, 0, 6, 6, 12, 12>>, <<0, 0, 12, 14, 13, 1>>,
        <<0, 0, 11, 15, 15, 15>> >>],
    [name |-> <<120, 97, 110, 104, 32, 110, 432, 7899, 99, 32, 98, 105, 7875, 110>>,
     hexColors |-> <<
        <<0, 0, 0, 0, 15, 15>>, <<4, 1, 6, 9, 14, 1>>, <<1, 14, 9, 0, 15, 15>>,
        <<0, 0, 0, 0, 12, 13>> >>],
    [name |-> <<120, 97, 110, 104, 32, 100, 97, 32, 116, 114, 7901, 105>>,
     hexColors |-> <<
        <<8, 7, 12, 14, 14, 11>>, <<8, 7, 12, 14, 15, 10>>, <<11, 0, 14, 0, 14, 6>>,
        <<10, 13, 13, 8, 14, 6>> >>],
    [name |-> <<116, 237, 109>>,
     hexColors |-> <<
        <<8, 0, 0, 0, 8, 0>>, <<9, 3, 7, 0, 13, 11>>, <<8, 11, 0, 0, 8, 11>>,
        <<9, 4, 0, 0, 13, 3>>, <<9, 9, 3, 2, 12, 12>>, <<11, 10, 5, 5, 13, 3>> >>],
    [name |-> <<110, 226, 117>>,
     hexColors |-> <<
        <<10, 5, 2, 10, 2, 10>>, <<8, 11, 4, 5, 1, 3>>, <<6, 5, 4, 3, 2, 1>>,
        <<13, 2, 6, 9, 1, 14>>, <<12, 13, 8, 5, 3, 15>> >>],
    [name |-> <<273, 101, 110>>,
     hexColors |-> <<
        <<0, 0, 0, 0, 0, 0>>, <<1, 12, 1, 12, 1, 12>>, <<2, 15, 2, 15, 2, 15>>,
        <<3, 13, 3, 13, 3, 13>> >>],
    [name |-> <<116, 114, 7855, 110, 103>>,
     hexColors |-> <<
        <<15, 15, 15, 15, 15, 15>>, <<15, 5, 15, 5, 15, 5>>,
        <<15, 10, 15, 10, 15, 10>>, <<15, 0, 15, 0, 15, 0>> >>],
    [name |-> <<120, 225, 109>>,
     hexColors |-> <<
        <<8, 0, 8, 0, 8, 0>>, <<10, 9, 10, 9, 10, 9>>, <<12, 0, 12, 0, 12, 0>>,
        <<13, 3, 13, 3, 13, 3>>, <<6, 9, 6, 9, 6, 9>> >>],
    [name |-> <<103, 114, 101, 121>>,
     hexColors |-> <<
        <<8, 0, 8, 0, 8, 0>>, <<10, 9, 10, 9, 10, 9>>, <<12, 0, 12, 0, 12, 0>>,
        <<13, 3, 13, 3, 13, 3>> >>],
    [name |-> <<98, 101>>,
     hexColors |-> <<
        <<15, 5, 15, 5, 13, 12>>, <<15, 5, 13, 14, 11, 3>>, <<13, 14, 11, 8, 8, 7>> >>],
    [name |-> <<107, 101, 109>>,
     hexColors |-> <<
        <<15, 15, 15, 8, 13, 12>>, <<15, 15, 14, 4, 11, 5>>, <<15, 15, 14, 11, 12, 13>> >>]
>>

\* parseInt(result[i], 16) of the three digit pairs
hexToRgb(hex) ==
    [r |-> 16 * hex[1] + hex[2], g |-> 16 * hex[3] + hex[4], b |-> 16 * hex[5] + hex[6]]

\* x.toString(16), padded to two digits, of r, g and b
rgbToHex(r, g, b) == <<r \div 16, r % 16, g \div 16, g % 16, b \div 16, b % 16>>

\* The square of colorDistance.  The squares are integers below 2^18 and
\* Math.sqrt is strictly increasing on them, so distance < minDistance
\* compares as the squares do.
colorDistance(rgb1, rgb2) ==
    LET dr == rgb1.r - rgb2.r
        dg == rgb1.g - rgb2.g
        db_ == rgb1.b - rgb2.b
    IN  dr * dr + dg * dg + db_ * db_

\* The (name, reference color) pairs in the order of the two nested loops.
RECURSIVE referenceColors(_)
referenceColors(entries) ==
    IF entries = <<>> THEN <<>>
    ELSE LET entry == Head(entries)
         IN  [i \in 1..Len(entry.hexColors) |->
                 [name |-> entry.name, rgb |-> hexToRgb(entry.hexColors[i])]]
             \o referenceColors(Tail(entries))

References == referenceColors(COLOR_NAMES)

\* Mutant of nearest: distance <= minDistance, the last reference at the
\* minimum wins.
RECURSIVE nearestLast(_, _, _, _)
nearestLast(rgb, i, minDistance, nearestName) ==
    IF i > Len(References) THEN nearestName
    ELSE LET distance == colorDistance(rgb, References[i].rgb)
         IN  IF minDistance = -1 \/ distance <= minDistance
             THEN nearestLast(rgb, i + 1, distance, References[i].name)
             ELSE nearestLast(rgb, i + 1, minDistance, nearestName)

\* The loops of findNearestColorName from reference i on; minDistance -1 is
\* Infinity.
RECURSIVE nearest(_, _, _, _)
nearest(rgb, i, minDistance, nearestName) ==
    IF i > Len(References) THEN nearestName
    ELSE LET distance == colorDistance(rgb, References[i].rgb)
         IN  IF minDistance = -1 \/ distance < minDistance
             THEN nearest(rgb, i + 1, distance, References[i].name)
             ELSE nearest(rgb, i + 1, minDistance, nearestName)

findNearestColorName(rgb) == nearest(rgb, 1, -1, <<>>)

channel(pixel, c) == IF c = "r" THEN pixel.r ELSE IF c = "g" THEN pixel.g ELSE pixel.b

Max(values) == CHOOSE v \in values : \A w \in values : w <= v
Min(values) == CHOOSE v \in values : \A w \in values : v <= w

\* cMax - cMin of a non-empty box
channelRange(box, c) ==
    LET values == {channel(box[i], c) : i \in 1..Len(box)}
    IN  Max(values) - Min(values)

maxRange(box) == Max({channelRange(box, "r"), channelRange(box, "g"), channelRange(box, "b")})

sortChannel(box) ==
    IF channelRange(box, "g") = maxRange(box) THEN "g"
    ELSE IF channelRange(box, "b") = maxRange(box) THEN "b"
    ELSE "r"

\* pixel inserted behind the pixels of sorted that do not compare above it
RECURSIVE insertPixel(_, _, _)
insertPixel(sorted, pixel, c) ==
    IF sorted = <<>> THEN <<pixel>>
    ELSE IF channel(Head(sorted), c) <= channel(pixel, c)
         THEN <<Head(sorted)>> \o insertPixel(Tail(sorted), pixel, c)
         ELSE <<pixel>> \o sorted

\* box.sort((a, b) => a[sortChannel] - b[sortChannel]); the sort is stable
RECURSIVE sortBox(_, _)
sortBox(box, c) ==
    IF box = <<>> THEN <<>>
    ELSE insertPixel(sortBox(SubSeq(box, 1, Len(box) - 1), c), box[Len(box)], c)

\* What one box adds to newBoxes.
splitBox(box) ==
    IF Len(box) = 0 THEN <<>>
    ELSE IF maxRange(box) = 0 THEN <<box>>
    ELSE LET sorted == sortBox(box, sortChannel(box))
             median == Len(box) \div 2
         IN  <<SubSeq(sorted, 1, median), SubSeq(sorted, median + 1, Len(box))>>

\* newBoxes after one pass of the for loop over boxes
RECURSIVE splitBoxes(_)
splitBoxes(bxs) ==
    IF bxs = <<>> THEN <<>> ELSE splitBox(Head(bxs)) \o splitBoxes(Tail(bxs))

RECURSIVE sum(_, _)
sum(box, c) == IF box = <<>> THEN 0 ELSE channel(Head(box), c) + sum(Tail(box), c)

\* Math.round(total / count) of a non-negative total
round(total, count) == (2 * total + count) \div (2 * count)

averageColor(box) ==
    [r |-> round(sum(box, "r"), Len(box)), g |-> round(sum(box, "g"), Len(box)),
     b |-> round(sum(box, "b"), Len(box)), count |-> Len(box)]

\* The average color of each non-empty box.
RECURSIVE averageColors(_)
averageColors(bxs) ==
    IF bxs = <<>> THEN <<>>
    ELSE IF Len(Head(bxs)) = 0 THEN averageColors(Tail(bxs))
    ELSE <<averageColor(Head(bxs))>> \o averageColors(Tail(bxs))

\* Mutant of compareCount: a.count - b.count.
compareCountAscending(a, b) == a.count - b.count

\* (a, b) => b.count - a.count
compareCount(a, b) == b.count - a.count

RECURSIVE insertColor(_, _)
insertColor(sorted, color) ==
    IF sorted = <<>> THEN <<color>>
    ELSE IF compareCount(Head(sorted), color) <= 0
         THEN <<Head(sorted)>> \o insertColor(Tail(sorted), color)
         ELSE <<color>> \o sorted

\* colors.sort(compareCount); the sort is stable
RECURSIVE sortColors(_)
sortColors(cs) ==
    IF cs = <<>> THEN <<>>
    ELSE insertColor(sortColors(SubSeq(cs, 1, Len(cs) - 1)), cs[Len(cs)])

\* Math.min(count / total, 1.0), as the fraction <<numerator, denominator>>
confidence(count, total) == IF count > total THEN <<1, 1>> ELSE <<count, total>>

\* medianCut: one pass of the while loop.  When no box can be split the
\* pass leaves boxes as it is and the loop does not end.
MedianCutSplit ==
    /\ colorStep = "medianCut"
    /\ Len(pixels) # 0
    /\ Len(boxes) < numColors /\ Len(boxes) < Len(pixels)
    /\ boxes' = splitBoxes(boxes)
    /\ UNCHANGED <<pixels, numColors, colors, colorResults, colorStep>>
    /\ UNCHANGED <<popupAt, isColor, popupVideos, popupNext, sent>>

\* medianCut: the loop has ended (or pixels is empty); the colors are
\* averaged, sorted and returned.
MedianCutReturn ==
    /\ colorStep = "medianCut"
    /\ Len(pixels) = 0 \/ ~(Len(boxes) < numColors /\ Len(boxes) < Len(pixels))
    /\ colors' = IF Len(pixels) = 0 THEN <<>> ELSE sortColors(averageColors(boxes))
    /\ colorStep' = "returned"
    /\ UNCHANGED <<pixels, numColors, boxes, colorResults>>
    /\ UNCHANGED <<popupAt, isColor, popupVideos, popupNext, sent>>

\* detectColors: the dominant colors are mapped to color names.
DetectColorsReturn ==
    /\ colorStep = "returned"
    /\ colorResults' =
           [i \in 1..Len(colors) |->
               [name |-> findNearestColorName(colors[i]),
                rgb |-> [r |-> colors[i].r, g |-> colors[i].g, b |-> colors[i].b],
                hex |-> rgbToHex(colors[i].r, colors[i].g, colors[i].b),
                confidence |-> confidence(colors[i].count, Len(pixels))]]
    /\ colorStep' = "detected"
    /\ UNCHANGED <<pixels, numColors, boxes, colors>>
    /\ UNCHANGED <<popupAt, isColor, popupVideos, popupNext, sent>>

(***************************************************************************)
(* SpecColors: detectColors on every sample of at most MaxPixels pixels of *)
(* the palette, for every numColors up to MaxColors.                       *)
(***************************************************************************)
Red == [r |-> 255, g |-> 0, b |-> 0]
Green == [r |-> 0, g |-> 255, b |-> 0]
Blue == [r |-> 0, g |-> 0, b |-> 255]
White == [r |-> 255, g |-> 255, b |-> 255]
Palette == {Red, Green, Blue, White}

Samples == UNION {[1..n -> Palette] : n \in 0..MaxPixels}

\* detectColors has obtained pixels from extractPixels and calls medianCut.
InitColors ==
    /\ InitIndexer
    /\ InitPopup
    /\ pixels \in Samples
    /\ numColors \in 1..MaxColors
    /\ boxes = <<pixels>>
    /\ colors = <<>>
    /\ colorResults = <<>>
    /\ colorStep = "medianCut"

NextColors ==
    \/ MedianCutSplit
           /\ UNCHANGED <<workerVars, thumbsSaved, contentVars, quotaVars, lifecycleVars,
                          settingsVars, handleVars, analyzeVars, tokenizerVars, queueVars, clearVars, pollVars>>
    \/ MedianCutReturn
           /\ UNCHANGED <<workerVars, thumbsSaved, contentVars, quotaVars, lifecycleVars,
                          settingsVars, handleVars, analyzeVars, tokenizerVars, queueVars, clearVars, pollVars>>
    \/ DetectColorsReturn
           /\ UNCHANGED <<workerVars, thumbsSaved, contentVars, quotaVars, lifecycleVars,
                          settingsVars, handleVars, analyzeVars, tokenizerVars, queueVars, clearVars, pollVars>>

SpecColors == InitColors /\ [][NextColors]_vars

\* A sample that is 80% pure red and 20% pure blue.
is80Red20Blue(sample) ==
    /\ Len(sample) > 0
    /\ \A i \in 1..Len(sample) : sample[i] \in {Red, Blue}
    /\ 5 * Cardinality({i \in 1..Len(sample) : sample[i] = Blue}) = Len(sample)

\* C15 (as claimed): for a sample that is 80% pure red and 20% pure blue and
\* numColors 2, detectColors returns exactly 2 colors, the first is named
\* 'đỏ' and its count is 0.8 of the sample size.
EndToEndColorExample ==
    (colorStep = "detected" /\ is80Red20Blue(pixels) /\ numColors = 2)
    => /\ Len(colorResults) = 2
       /\ colorResults[1].name = TxtDoAccented
       /\ 10 * colorResults[1].confidence[1] = 8 * colorResults[1].confidence[2]

\* C16 (as claimed): medianCut returns at most numColors colors for every
\* non-empty sample and every numColors >= 1.
AtMostNumColors ==
    (colorStep \in {"returned", "detected"} /\ Len(pixels) > 0)
    => Len(colors) <= numColors

RECURSIVE countSum(_)
countSum(cs) == IF cs = <<>> THEN 0 ELSE Head(cs).count + countSum(Tail(cs))

\* C17: the counts of the colors medianCut returned sum to the number of
\* input pixels, and the colors are in order of non-increasing count.
CountsSumSorted ==
    colorStep \in {"returned", "detected"}
    => /\ countSum(colors) = Len(pixels)
       /\ \A i \in 1..Len(colors), j \in 1..Len(colors) :
              i < j => colors[i].count >= colors[j].count

\* C17 witness: medianCut returned three colors whose boxes had different
\* sizes, in an order the average of the boxes did not have.
CountsSumSortedWitness ==
    /\ colorStep = "returned"
    /\ Len(colors) = 3
    /\ colors[1].count > colors[3].count
    /\ averageColors(boxes) # colors

\* The least position in References of a reference color at the minimum
\* distance from rgb.
firstNearest(rgb) ==
    LET minDistance == Min({colorDistance(rgb, References[j].rgb) : j \in 1..Len(References)})
    IN  Min({j \in 1..Len(References) : colorDistance(rgb, References[j].rgb) = minDistance})

\* C18: the name detectColors gives a color is the name of a reference color
\* at the minimum squared RGB distance from it, and of the references at
\* that distance it is the first in lexicon order.
NearestNameFirstMinimum ==
    colorStep = "detected"
    => \A i \in 1..Len(colorResults) :
           colorResults[i].name = References[firstNearest(colorResults[i].rgb)].name

\* 'xanh dương' and 'xanh'
TxtXanhDuong == <<120, 97, 110, 104, 32, 100, 432, 417, 110, 103>>
TxtXanh == <<120, 97, 110, 104>>

\* C18 witness: pure blue, a reference color of 'xanh dương' and of 'xanh',
\* was named 'xanh dương'.
NearestNameFirstMinimumWitness ==
    /\ colorStep = "detected"
    /\ \E i \in 1..Len(colorResults) :
           /\ colorResults[i].rgb = Blue
           /\ colorResults[i].name = TxtXanhDuong
    /\ \E j \in 1..Len(References) :
           References[j].name = TxtXanh /\ References[j].rgb = Blue

(***************************************************************************)
(* The popup: performSearch and its color step.                            *)
(***************************************************************************)
\* The cases of the switch in the background listener.
Served == {"SAVE_VIDEO", "SAVE_FRAME", "ANALYZE_FRAME", "SEARCH", "GET_FRAMES",
           "GET_FRAME_COUNT", "GET_FRAME_DATA", "CLEAR_DATA", "GET_STATS",
           "GET_ALL_VIDEOS", "SAVE_THUMBNAIL", "GET_THUMBNAILS"}

\* success of the listener's response to a message with this action: the
\* default case answers { success: false, error: 'Unknown action' }.
listenerSuccess(action) == action \in Served

\* 'màu', 'color', 'áo', 'quần', 'áo màu', 'màu gì', 'what color'
colorTerms == <<
    <<109, 224, 117>>,
    <<99, 111, 108, 111, 114>>,
    <<225, 111>>,
    <<113, 117, 7847, 110>>,
    <<225, 111, 32, 109, 224, 117>>,
    <<109, 224, 117, 32, 103, 236>>,
    <<119, 104, 97, 116, 32, 99, 111, 108, 111, 114>> >>

\* String.prototype.includes
includes(text, term) ==
    \E i \in 1..(Len(text) - Len(term) + 1) : SubSeq(text, i, i + Len(term) - 1) = term

isColorQuery(query) ==
    \E t \in 1..Len(colorTerms) : includes(toLowerCase(query), colorTerms[t])

\* String.prototype.trim
RECURSIVE trimStart(_)
trimStart(text) ==
    IF text # <<>> /\ isWhitespace(Head(text)) THEN trimStart(Tail(text)) ELSE text

RECURSIVE trimEnd(_)
trimEnd(text) ==
    IF text # <<>> /\ isWhitespace(text[Len(text)])
    THEN trimEnd(SubSeq(text, 1, Len(text) - 1))
    ELSE text

trim(text) == trimEnd(trimStart(text))

\* The keys in the order of an IndexedDB getAll.
RECURSIVE sortedKeys(_)
sortedKeys(keys) ==
    IF keys = {} THEN <<>>
    ELSE LET first == CHOOSE k \in keys : \A other \in keys : k = other \/ keyLess(k, other)
         IN  <<first>> \o sortedKeys(keys \ {first})

\* getFramesForVideo: index.getAll(videoId)
getFramesForVideo(videoId) ==
    LET keys == sortedKeys({k \in DOMAIN frames : frames[k].videoId = videoId})
    IN  [i \in 1..Len(keys) |-> frames[keys[i]]]

\* The boxes medianCut ends its while loop with, for a sample on which the
\* loop ends.
RECURSIVE medianCutBoxes(_, _, _)
medianCutBoxes(bxs, total, k) ==
    IF Len(bxs) < k /\ Len(bxs) < total /\ splitBoxes(bxs) # bxs
    THEN medianCutBoxes(splitBoxes(bxs), total, k)
    ELSE bxs

\* The while loop of medianCut ends.
loopEnds(sample, k) ==
    LET bxs == medianCutBoxes(<<sample>>, Len(sample), k)
    IN  ~(Len(bxs) < k /\ Len(bxs) < Len(sample))

medianCut(sample, k) ==
    IF Len(sample) = 0 THEN <<>>
    ELSE sortColors(averageColors(medianCutBoxes(<<sample>>, Len(sample), k)))

\* detectColors on a blob whose pixels are sample
detectColors(sample, k) ==
    LET dominantColors == medianCut(sample, k)
    IN  [i \in 1..Len(dominantColors) |->
            [name |-> findNearestColorName(dominantColors[i]),
             rgb |-> [r |-> dominantColors[i].r, g |-> dominantColors[i].g,
                      b |-> dominantColors[i].b],
             hex |-> rgbToHex(dominantColors[i].r, dominantColors[i].g, dominantColors[i].b),
             confidence |-> confidence(dominantColors[i].count, Len(sample))]]

\* A video of a response as the popup holds it: frame is the key of the
\* frame getRepresentativeFrame chose when that frame has image data, and
\* detectedColors is <<>> while the property is undefined.
PopupVideo(video) == [id |-> video.id, frame |-> <<>>, detectedColors |-> <<>>]

\* displayResults: one GET_THUMBNAILS and one GET_FRAME_COUNT for each video.
displayResults(vids) ==
    IF vids = <<>> THEN {} ELSE {"GET_THUMBNAILS", "GET_FRAME_COUNT"}

\* The popup opens: loadStats and viewAllVideos.
PopupOpen ==
    /\ popupAt = "closed"
    /\ popupAt' = "idle"
    /\ sent' = sent \cup {"GET_STATS", "GET_ALL_VIDEOS"}
                    \cup displayResults(sortedKeys(DOMAIN videos))
    /\ UNCHANGED <<isColor, popupVideos, popupNext>>

\* performSearch up to displayResults or to the loop of
\* displayResultsWithColors.
PerformSearch(query) ==
    /\ popupAt = "idle"
    /\ IF trim(query) = <<>>
       THEN UNCHANGED <<popupAt, isColor, popupVideos, popupNext, sent>>
       ELSE LET vids == searchVideos(videos, invertedIndex, trim(query))
            IN  /\ isColor' = isColorQuery(trim(query))
                /\ popupVideos' = [i \in 1..Len(vids) |-> PopupVideo(vids[i])]
                /\ popupNext' = 1
                /\ IF vids # <<>> /\ isColor'
                   THEN /\ popupAt' = "colors"
                        /\ sent' = sent \cup {"SEARCH"}
                   ELSE /\ popupAt' = "idle"
                        /\ sent' = sent \cup {"SEARCH"} \cup displayResults(vids)

\* displayResultsWithColors: the body of the loop for one of the first five
\* videos (getRepresentativeFrame, then detectColors with 3 colors), or,
\* after the last, displayResults.
ColorStep ==
    /\ popupAt = "colors"
    /\ IF popupNext <= Len(popupVideos) /\ popupNext <= 5
       THEN LET video == popupVideos[popupNext]
                response == getFramesForVideo(video.id)
                frame == response[(Len(response) \div 2) + 1]
                hasBlob == Len(response) > 0 /\ listenerSuccess("GET_FRAME_BLOB")
                hasData == Len(response) > 0 /\ frame.blobData # "null"
            IN  /\ sent' = sent \cup {"GET_FRAMES"}
                              \cup (IF Len(response) > 0 THEN {"GET_FRAME_BLOB"} ELSE {})
                /\ \E sample \in (IF hasBlob THEN Samples ELSE {<<>>}) :
                       /\ hasBlob => loopEnds(sample, 3)
                       /\ popupVideos' =
                              [popupVideos EXCEPT ![popupNext] =
                                  [id |-> video.id,
                                   frame |-> IF hasData THEN frame.key ELSE <<>>,
                                   detectedColors |-> IF hasBlob THEN detectColors(sample, 3)
                                                      ELSE <<>>]]
                /\ popupNext' = popupNext + 1
                /\ UNCHANGED <<popupAt, isColor>>
       ELSE /\ popupAt' = "idle"
            /\ sent' = sent \cup displayResults(popupVideos)
            /\ UNCHANGED <<isColor, popupVideos, popupNext>>

(***************************************************************************)
(* SpecPopup: the popup next to a worker that saves two items and frames   *)
(* of item 123, with and without image data.                               *)
(***************************************************************************)
\* "Áo ĐỎ" and "áo đỏ đẹp quá" hold the color term 'áo'; "ao do" holds none.
PopupQueries == {TxtAoDoUpper, TxtAoDoDepQua, TxtAoDo, TxtBlank}

quantizerVars == <<pixels, numColors, boxes, colors, colorResults, colorStep>>
popupOutside == <<thumbsSaved, contentVars, quantizerVars, quotaVars, lifecycleVars,
                  settingsVars, handleVars, analyzeVars, tokenizerVars, queueVars, clearVars, pollVars>>
workerOutside == <<thumbsSaved, contentVars, popupVars, quotaVars, lifecycleVars, settingsVars,
                   handleVars, analyzeVars, tokenizerVars, queueVars, clearVars, pollVars>>

NextPopup ==
    \/ \E videoData \in {Item123, Item7}, putOk \in BOOLEAN :
           SaveVideoBegin(videoData, putOk) /\ UNCHANGED workerOutside
    \/ \E videoData \in indexing : SaveVideoIndex(videoData) /\ UNCHANGED workerOutside
    \/ \E ts \in 0..1, blob \in {"Array", "Absent"} :
           SaveFrameBegin(FrameData(Id123, ts, blob), FALSE, TRUE, AnalysisAoDo)
           /\ UNCHANGED workerOutside
    \/ \E frameToStore \in framesToStore, putOk \in BOOLEAN :
           SaveFramePut(frameToStore, putOk) /\ UNCHANGED workerOutside
    \/ PopupOpen /\ UNCHANGED <<workerVars, popupOutside>>
    \/ \E query \in PopupQueries :
           PerformSearch(query) /\ UNCHANGED <<workerVars, popupOutside>>
    \/ ColorStep /\ UNCHANGED <<workerVars, popupOutside>>

SpecPopup == Init /\ [][NextPopup]_vars

\* C19 (as claimed): when the popup has shown the results of a color query,
\* each of the videos it processed whose representative frame has image
\* data carries non-empty detectedColors; and every action name the popup
\* and colorUtils sent is one the background listener serves.
ColorStepAttachesColors ==
    /\ (popupAt = "idle" /\ isColor)
       => \A i \in 1..Len(popupVideos) :
              (i <= 5 /\ popupVideos[i].frame # <<>>)
              => popupVideos[i].detectedColors # <<>>
    /\ sent \subseteq Served

(***************************************************************************)
(* checkDBSize: the count of the frames, then cleanupOldFrames when the    *)
(* count is above MAX_FRAMES.                                              *)
(***************************************************************************)
MAX_FRAMES == 1

\* The readonly transaction: store.count().
CheckDBSizeCount ==
    /\ checkDBSizeAt.at = "start"
    /\ LET frameCount == Cardinality(DOMAIN frames)
       IN  checkDBSizeAt' = CheckDBSizeAt(IF frameCount > MAX_FRAMES THEN "cleanup" ELSE "done",
                                          frameCount, -1)
    /\ UNCHANGED workerVars

\* cleanupOldFrames, called by checkDBSize: the transaction on frames.
CheckDBSizeCleanupFrames ==
    /\ checkDBSizeAt.at = "cleanup"
    /\ CleanupFrames
    /\ checkDBSizeAt' = CheckDBSizeAt("thumbs", checkDBSizeAt.frameCount,
                                      Cardinality(DOMAIN frames'))

\* cleanupOldFrames, called by checkDBSize: the transaction on thumbnails.
CheckDBSizeCleanupThumbnails ==
    /\ checkDBSizeAt.at = "thumbs"
    /\ CleanupThumbnails(Len(cleanups))
    /\ checkDBSizeAt' = [checkDBSizeAt EXCEPT !.at = "done"]

(***************************************************************************)
(* SpecQuota: frames of two items are saved while time passes, and         *)
(* checkDBSize runs once.                                                  *)
(***************************************************************************)
quotaOutside == <<thumbsSaved, contentVars, popupVars, lifecycleVars, settingsVars, handleVars,
                  analyzeVars, tokenizerVars, queueVars, clearVars, pollVars>>

NextQuota ==
    \/ \E videoId \in {Id7, Id123} :
           SaveFrameBegin(FrameData(videoId, now, "Array"), FALSE, TRUE, AnalysisAoDo)
           /\ UNCHANGED outside
    \/ \E frameToStore \in framesToStore, putOk \in BOOLEAN :
           SaveFramePut(frameToStore, putOk) /\ UNCHANGED outside
    \/ Tick(MaxNow) /\ UNCHANGED outside
    \/ CheckDBSizeCount /\ UNCHANGED quotaOutside
    \/ CheckDBSizeCleanupFrames /\ UNCHANGED quotaOutside
    \/ CheckDBSizeCleanupThumbnails /\ UNCHANGED quotaOutside

SpecQuota == Init /\ [][NextQuota]_vars

startupCleanupPending ==
    Len(cleanups) > (IF checkDBSizeAt.at = "thumbs" THEN 1 ELSE 0)

NextRetention ==
    \/ \E putOk \in BOOLEAN : SaveVideoBegin(Item7, putOk) /\ UNCHANGED outside
    \/ \E videoData \in indexing : SaveVideoIndex(videoData) /\ UNCHANGED outside
    \/ SaveFrameBegin(FrameData(Id7, now, "Array"), FALSE, TRUE, AnalysisAoDo)
       /\ UNCHANGED outside
    \/ \E frameToStore \in framesToStore :
           SaveFramePut(frameToStore, TRUE) /\ UNCHANGED outside
    \/ SaveThumbnail(ThumbData(Id7, now)) /\ UNCHANGED outside
    \/ Tick(MaxNow) /\ UNCHANGED outside
    \/ /\ checkDBSizeAt.at = "start"
       /\ cleanups = <<>>
       /\ CleanupFrames
       /\ UNCHANGED outside
    \/ /\ startupCleanupPending
       /\ CleanupThumbnails(1)
       /\ UNCHANGED outside
    \/ CheckDBSizeCount /\ UNCHANGED quotaOutside
    \/ CheckDBSizeCleanupFrames /\ UNCHANGED quotaOutside
    \/ CheckDBSizeCleanupThumbnails /\ UNCHANGED quotaOutside

SpecRetention == Init /\ [][NextRetention]_vars

\* C21: a step of the retention cycle (a transaction of cleanupOldFrames or
\* a step of checkDBSize) leaves the videos store and the invertedIndex
\* store unchanged, whatever frames and thumbnails it deletes.
RetentionFrameCondition ==
    [][ (cleanups' # cleanups \/ checkDBSizeAt' # checkDBSizeAt)
        => UNCHANGED <<videos, invertedIndex>>
      ]_vars

\* C21 witness: checkDBSize has returned after a cleanup that deleted a
\* frame, no thumbnail is left, and item 7 is stored and indexed.
RetentionFrameConditionWitness ==
    /\ checkDBSizeAt.at = "done"
    /\ checkDBSizeAt.remaining >= 0
    /\ checkDBSizeAt.remaining < checkDBSizeAt.frameCount
    /\ DOMAIN thumbnails = {} /\ now > 0
    /\ Id7 \in DOMAIN videos
    /\ TxtAo \in DOMAIN invertedIndex /\ Id7 \in Range(invertedIndex[TxtAo])

(***************************************************************************)
(* SpecRetentionLive: while the worker runs, the timer of setInterval      *)
(* calls cleanupOldFrames again and again, and a transaction that was      *)
(* opened completes; frames and thumbnails of item 7 are saved meanwhile.  *)
(***************************************************************************)
\* cleanupOldFrames is called (startup or the hourly timer): its frames
\* transaction.
CleanupTimer == CleanupFrames /\ UNCHANGED outside

\* The thumbnails transaction of a cleanupOldFrames call.
CleanupTimerThumbnails == \E i \in 1..Len(cleanups) : CleanupThumbnails(i) /\ UNCHANGED outside

NextRetentionLive ==
    \/ SaveFrameBegin(FrameData(Id7, now, "Array"), FALSE, TRUE, AnalysisAoDo)
       /\ UNCHANGED outside
    \/ \E frameToStore \in framesToStore :
           SaveFramePut(frameToStore, TRUE) /\ UNCHANGED outside
    \/ SaveThumbnail(ThumbData(Id7, now)) /\ UNCHANGED outside
    \/ Tick(MaxNow) /\ UNCHANGED outside
    \/ CleanupTimer
    \/ CleanupTimerThumbnails

SpecRetentionLive ==
    /\ Init
    /\ [][NextRetentionLive]_vars
    /\ WF_vars(CleanupTimer)
    /\ WF_vars(CleanupTimerThumbnails)

\* C22: every frame and every thumbnail whose ts is older than 30 days is
\* eventually deleted.
RetentionLiveness ==
    /\ \A ts \in 0..(MaxNow + 1) :
           (/\ frameKey(Id7, ts) \in DOMAIN frames
            /\ frames[frameKey(Id7, ts)].ts < now - ThirtyDays)
           ~> (frameKey(Id7, ts) \notin DOMAIN frames)
    /\ \A ts \in 0..(MaxNow + 1) :
           (/\ thumbKey(Id7, ts) \in DOMAIN thumbnails
            /\ thumbnails[thumbKey(Id7, ts)].ts < now - ThirtyDays)
           ~> (thumbKey(Id7, ts) \notin DOMAIN thumbnails)

\* C22 witness: a cleanup with the horizon of this instant has deleted the
\* frames older than 30 days while a saveFrame call is in flight, and its
\* thumbnails transaction has yet to delete a thumbnail older than 30 days.
RetentionLivenessWitness ==
    /\ Len(cleanups) = 1 /\ cleanups[1] = now - ThirtyDays
    /\ framesToStore # {}
    /\ \E k \in DOMAIN frames : frames[k].ts = now
    /\ \A k \in DOMAIN frames : ~(frames[k].ts < now - ThirtyDays)
    /\ \E k \in DOMAIN thumbnails : thumbnails[k].ts < now - ThirtyDays

(***************************************************************************)
(* SpecVisibility: the content script of one tab whose visibility changes  *)
(* at any time, with its two timers, and the background worker.            *)
(***************************************************************************)
\* The visibilitychange listener of init(): document.hidden ? stop() : start().
\* Before init() has added the listener, only document.hidden changes.
VisibilityChange ==
    /\ hidden' = ~hidden
    /\ IF checking.at = "init"
       THEN UNCHANGED <<isRunning, activeIntervalId, timeouts, intervals>>
       ELSE IF hidden'
       THEN stop
       ELSE (isRunning \/ timeouts < MaxTimeouts) /\ start
    /\ UNCHANGED <<workerVars, thumbsSaved, contentVars>>

\* The early returns of checkVideo have all been passed.
checkVideoProceeds ==
    /\ checking.at = "idle"
    /\ ~isProcessing
    /\ page # NoPage
    /\ page.author # lastAuthor

\* A setTimeout(checkVideo, 2000) callback of start() fires.
TimeoutCheckVideo ==
    /\ timeouts > 0
    /\ timeouts' = timeouts - 1
    /\ IF checkVideoProceeds
       THEN CheckVideoStart
       ELSE UNCHANGED <<workerVars, thumbsSaved, contentVars>>
    /\ UNCHANGED <<hidden, isRunning, activeIntervalId, intervals>>

\* The setInterval(checkVideo, CHECK_INTERVAL_MS) callback of start() fires.
IntervalCheckVideo ==
    /\ activeIntervalId
    /\ CheckVideoStart
    /\ UNCHANGED lifecycleVars

NextVisibility ==
    \/ ContentInit(TRUE)
           /\ UNCHANGED <<popupVars, quotaVars, settingsVars, handleVars, analyzeVars,
                          tokenizerVars, queueVars, clearVars, pollVars>>
    \/ \E p \in {PageBo, NoPage} : ShowVideo(p)
           /\ UNCHANGED <<popupVars, quotaVars, lifecycleVars, settingsVars, handleVars,
                          analyzeVars, tokenizerVars, queueVars, clearVars, pollVars>>
    \/ VisibilityChange
           /\ UNCHANGED <<popupVars, quotaVars, settingsVars, handleVars, analyzeVars,
                          tokenizerVars, queueVars, clearVars, pollVars>>
    \/ TimeoutCheckVideo
           /\ UNCHANGED <<popupVars, quotaVars, settingsVars, handleVars, analyzeVars,
                          tokenizerVars, queueVars, clearVars, pollVars>>
    \/ IntervalCheckVideo
           /\ UNCHANGED <<popupVars, quotaVars, settingsVars, handleVars, analyzeVars,
                          tokenizerVars, queueVars, clearVars, pollVars>>
    \/ \E found \in BOOLEAN :
           CheckVideoUrl(found, TRUE)
                  /\ UNCHANGED <<popupVars, quotaVars, lifecycleVars, settingsVars, handleVars,
                                 analyzeVars, tokenizerVars, queueVars, clearVars, pollVars>>
    \/ \E thumb \in BOOLEAN : CheckVideoSaved(thumb)
           /\ UNCHANGED <<popupVars, quotaVars, lifecycleVars, settingsVars, handleVars,
                          analyzeVars, tokenizerVars, queueVars, clearVars, pollVars>>
    \/ \E elapsed \in BOOLEAN : OnTimeUpdate(elapsed, FALSE)
           /\ UNCHANGED <<popupVars, quotaVars, lifecycleVars, settingsVars, handleVars,
                          analyzeVars, tokenizerVars, queueVars, clearVars, pollVars>>
    \/ \E videoData \in indexing : SaveVideoIndex(videoData) /\ UNCHANGED outside
    \/ \E frameToStore \in framesToStore :
           SaveFramePut(frameToStore, TRUE) /\ UNCHANGED outside

SpecVisibility == Init /\ [][NextVisibility]_vars

\* A step in which checkVideo passes its early returns.
checkVideoRuns == checking.at = "idle" /\ checking'.at = "getVideoUrl"

\* The steps in which the content script sends SAVE_VIDEO, SAVE_THUMBNAIL
\* and SAVE_FRAME.
sendsSaveVideo == checking.at = "getVideoUrl" /\ checking'.at = "saveVideo"
sendsSaveThumbnail == checking.at = "saveVideo" /\ thumbnails' # thumbnails
sendsSaveFrame == ~(framesToStore' \subseteq framesToStore)

\* C23: while the document is hidden, no step of the content script sends
\* SAVE_FRAME, SAVE_VIDEO or SAVE_THUMBNAIL, and no checkVideo call runs,
\* for every ordering of init, visibilitychange, the 2-second timer, the
\* polling interval and timeupdate.
HiddenTabIsSilent ==
    [][ hidden => ~(checkVideoRuns \/ sendsSaveVideo \/ sendsSaveThumbnail
                    \/ sendsSaveFrame) ]_vars

\* The parts of C23, each of which fails on its own.
HiddenTabRunsNoCheckVideo == [][ hidden => ~checkVideoRuns ]_vars
HiddenTabSendsNoVideo == [][ hidden => ~(sendsSaveVideo \/ sendsSaveThumbnail) ]_vars
HiddenTabSendsNoFrame == [][ hidden => ~sendsSaveFrame ]_vars
\* After stop(), with no checkVideo call in progress, checkVideo still runs
\* when the pending 2-second timer fires.
StoppedRunsNoCheckVideo ==
    [][ (hidden /\ ~isRunning) => ~checkVideoRuns ]_vars

(***************************************************************************)
(* The options page.  Numbers with a fraction (webpQuality) are counted in *)
(* hundredths.                                                             *)
(***************************************************************************)
\* What parseInt and parseFloat return: NaN or a number.
NaN == [nan |-> TRUE, value |-> 0]
Number(n) == [nan |-> FALSE, value |-> n]

isDigit(c) == c >= 48 /\ c <= 57

\* The length of the longest prefix of text made of digits.
RECURSIVE digitsPrefix(_)
digitsPrefix(text) ==
    IF text = <<>> \/ ~isDigit(Head(text)) THEN 0 ELSE 1 + digitsPrefix(Tail(text))

\* The value of a sequence of digits.
RECURSIVE digitsValue(_)
digitsValue(digits) ==
    IF digits = <<>> THEN 0
    ELSE 10 * digitsValue(SubSeq(digits, 1, Len(digits) - 1)) + (digits[Len(digits)] - 48)

\* parseInt(text): an optional sign, then the digits up to the first other
\* character; NaN without a digit.
parseInt(text) ==
    LET negative == text # <<>> /\ Head(text) = 45
        rest == IF text # <<>> /\ Head(text) \in {43, 45} THEN Tail(text) ELSE text
        n == digitsPrefix(rest)
    IN  IF n = 0 THEN NaN
        ELSE Number((IF negative THEN -1 ELSE 1) * digitsValue(SubSeq(rest, 1, n)))

\* parseFloat(text) in hundredths, for texts with at most two digits after
\* the point: an optional sign, digits, and an optional point with digits.
parseFloat(text) ==
    LET negative == text # <<>> /\ Head(text) = 45
        rest == IF text # <<>> /\ Head(text) \in {43, 45} THEN Tail(text) ELSE text
        n == digitsPrefix(rest)
        after == SubSeq(rest, n + 1, Len(rest))
        fraction == IF after # <<>> /\ Head(after) = 46
                    THEN SubSeq(Tail(after), 1, digitsPrefix(Tail(after)))
                    ELSE <<>>
        hundredths == IF fraction = <<>> THEN 0
                      ELSE IF Len(fraction) = 1 THEN 10 * digitsValue(fraction)
                      ELSE digitsValue(SubSeq(fraction, 1, 2))
    IN  IF n = 0 /\ fraction = <<>> THEN NaN
        ELSE Number((IF negative THEN -1 ELSE 1)
                    * (100 * digitsValue(SubSeq(rest, 1, n)) + hundredths))

\* parsed || fallback: NaN and 0 are falsy.
orDefault(parsed, fallback) ==
    IF parsed.nan \/ parsed.value = 0 THEN fallback ELSE parsed.value

\* The settings object saveSettings builds from the page.
settingsOf(page_) ==
    [enableFrameCapture |-> page_.enableFrameCapture,
     frameCap |-> orDefault(parseInt(page_.frameCap), 5),
     webpQuality |-> orDefault(parseFloat(page_.webpQuality), 70)]

\* The validation of saveSettings passes.
valid(s) ==
    /\ ~(s.frameCap < 1 \/ s.frameCap > 20)
    /\ ~(s.webpQuality < 10 \/ s.webpQuality > 100)

\* toggleSetting on the enableFrameCapture toggle.
ToggleSetting ==
    /\ form' = [form EXCEPT !.enableFrameCapture = ~@]
    /\ UNCHANGED <<settings, writes>>

\* The user types into the frameCap or the webpQuality field.
EditFrameCap(text) ==
    /\ form' = [form EXCEPT !.frameCap = text]
    /\ UNCHANGED <<settings, writes>>

EditWebpQuality(text) ==
    /\ form' = [form EXCEPT !.webpQuality = text]
    /\ UNCHANGED <<settings, writes>>

\* saveSettings: setOk = FALSE is chrome.storage.sync.set rejecting.
SaveSettings(setOk) ==
    /\ writes < MaxWrites
    /\ IF ~valid(settingsOf(form))
       THEN UNCHANGED <<settings, writes>>
       ELSE /\ writes' = writes + 1
            /\ settings' = IF setOk THEN settingsOf(form) ELSE settings
    /\ UNCHANGED form

\* chrome.storage.sync.get with defaults, as loadSettings reads it.
stored(key, fallback) == IF key \in DOMAIN settings THEN settings[key] ELSE fallback

(***************************************************************************)
(* SpecCapture: the options page stores settings while the content script  *)
(* of a tab captures frames of the video it shows.                         *)
(***************************************************************************)
\* "1" and "5" in the frameCap field.
FrameCapTexts == {<<49>>, <<53>>}

optionsOutside == <<workerVars, thumbsSaved, contentVars, popupVars, quotaVars, lifecycleVars,
                    handleVars, analyzeVars, tokenizerVars, queueVars, clearVars, pollVars>>

NextCapture ==
    \/ ContentInit(TRUE)
           /\ UNCHANGED <<popupVars, quotaVars, settingsVars, handleVars, analyzeVars,
                          tokenizerVars, queueVars, clearVars, pollVars>>
    \/ ShowVideo(PageBo)
           /\ UNCHANGED <<popupVars, quotaVars, lifecycleVars, settingsVars, handleVars,
                          analyzeVars, tokenizerVars, queueVars, clearVars, pollVars>>
    \/ IntervalCheckVideo
           /\ UNCHANGED <<popupVars, quotaVars, settingsVars, handleVars, analyzeVars,
                          tokenizerVars, queueVars, clearVars, pollVars>>
    \/ CheckVideoUrl(TRUE, TRUE)
           /\ UNCHANGED <<popupVars, quotaVars, lifecycleVars, settingsVars, handleVars,
                          analyzeVars, tokenizerVars, queueVars, clearVars, pollVars>>
    \/ CheckVideoSaved(FALSE)
           /\ UNCHANGED <<popupVars, quotaVars, lifecycleVars, settingsVars, handleVars,
                          analyzeVars, tokenizerVars, queueVars, clearVars, pollVars>>
    \/ \E elapsed \in BOOLEAN : OnTimeUpdate(elapsed, FALSE)
           /\ UNCHANGED <<popupVars, quotaVars, lifecycleVars, settingsVars, handleVars,
                          analyzeVars, tokenizerVars, queueVars, clearVars, pollVars>>
    \/ \E videoData \in indexing : SaveVideoIndex(videoData) /\ UNCHANGED outside
    \/ \E frameToStore \in framesToStore :
           SaveFramePut(frameToStore, TRUE) /\ UNCHANGED outside
    \/ Tick(MaxContentNow) /\ UNCHANGED outside
    \/ ToggleSetting /\ UNCHANGED optionsOutside
    \/ \E text \in FrameCapTexts : EditFrameCap(text) /\ UNCHANGED optionsOutside
    \/ SaveSettings(TRUE) /\ UNCHANGED optionsOutside

SpecCapture == Init /\ [][NextCapture]_vars

\* The frames stored for videoId.
framesOf(videoId) == {k \in DOMAIN frames : frames[k].videoId = videoId}

\* C24: in every reachable state the number of frames stored for one video
\* id is at most the configured frameCap (default 5, never more than 20).
\* The second half of the claim, no capture while enableFrameCapture is
\* off, is CaptureOnlyWhenEnabled.
PerVideoFrameCap ==
    /\ stored("frameCap", 5) <= 20
    /\ \A videoId \in {Id7} :
           Cardinality(framesOf(videoId)) <= stored("frameCap", 5)

\* No SAVE_FRAME is sent while the stored enableFrameCapture is off.
CaptureOnlyWhenEnabled ==
    [][ sendsSaveFrame => stored("enableFrameCapture", TRUE) ]_vars

\* No SAVE_FRAME is sent for a video that has frameCap frames already,
\* stored or on their way to the store.
CaptureBelowCap ==
    [][ sendsSaveFrame =>
          Cardinality(framesOf(activeCapture.id))
            + Cardinality({f \in framesToStore : f.videoId = activeCapture.id})
              < stored("frameCap", 5) ]_vars

(***************************************************************************)
(* SpecThrottle: the content script on a clock whose tick is 2500 ms, half *)
(* of CAPTURE_INTERVAL, while the user scrolls between two videos.  No     *)
(* cleanup runs, so that no other duration is involved.                    *)
(***************************************************************************)
\* onTimeUpdate with `now - lastTime < CAPTURE_INTERVAL` computed on that
\* clock; a lastTime of 0, the epoch, is further back than any interval.
OnTimeUpdateTimed ==
    onTimeUpdate(\/ activeCapture.lastTime = NoCapture.lastTime
                 \/ ~(now - activeCapture.lastTime < CAPTURE_INTERVAL),
                 FALSE)

NextThrottle ==
    \/ ContentInit(TRUE)
           /\ UNCHANGED <<popupVars, quotaVars, settingsVars, handleVars, analyzeVars,
                          tokenizerVars, queueVars, clearVars, pollVars>>
    \/ \E p \in Pages : ShowVideo(p)
           /\ UNCHANGED <<popupVars, quotaVars, lifecycleVars, settingsVars, handleVars,
                          analyzeVars, tokenizerVars, queueVars, clearVars, pollVars>>
    \/ IntervalCheckVideo
           /\ UNCHANGED <<popupVars, quotaVars, settingsVars, handleVars, analyzeVars,
                          tokenizerVars, queueVars, clearVars, pollVars>>
    \/ CheckVideoUrl(TRUE, TRUE)
           /\ UNCHANGED <<popupVars, quotaVars, lifecycleVars, settingsVars, handleVars,
                          analyzeVars, tokenizerVars, queueVars, clearVars, pollVars>>
    \/ CheckVideoSaved(FALSE)
           /\ UNCHANGED <<popupVars, quotaVars, lifecycleVars, settingsVars, handleVars,
                          analyzeVars, tokenizerVars, queueVars, clearVars, pollVars>>
    \/ OnTimeUpdateTimed
           /\ UNCHANGED <<popupVars, quotaVars, lifecycleVars, settingsVars, handleVars,
                          analyzeVars, tokenizerVars, queueVars, clearVars, pollVars>>
    \/ \E videoData \in indexing : SaveVideoIndex(videoData) /\ UNCHANGED outside
    \/ \E frameToStore \in framesToStore :
           SaveFramePut(frameToStore, TRUE) /\ UNCHANGED outside
    \/ Tick(MaxNow) /\ UNCHANGED outside

SpecThrottle == Init /\ [][NextThrottle]_vars

\* The frames SAVE_FRAME messages have carried: stored or about to be.
framesSent == {frames[k] : k \in DOMAIN frames} \cup framesToStore

\* C25: any two SAVE_FRAME messages for one video id are at least
\* CAPTURE_INTERVAL apart, also when the active video changed to another
\* video and back in between.  (The ts of a frame is the time it was sent.)
CaptureThrottled ==
    \A f \in framesSent, g \in framesSent :
        (f.videoId = g.videoId /\ f.ts < g.ts) => g.ts - f.ts >= CAPTURE_INTERVAL

\* While the active video stays the same, the captures are throttled.
CaptureThrottledWhileActive ==
    [][ (sendsSaveFrame /\ activeCapture.lastTime # NoCapture.lastTime)
          => now - activeCapture.lastTime >= CAPTURE_INTERVAL ]_vars

(***************************************************************************)
(* SpecIndexLive: a visible tab whose polling runs, showing videos with a  *)
(* URL that holds /video/<id>, two of them by the same author.  Every step *)
(* of the content script and of the worker is taken when it stays enabled, *)
(* and a URL lookup that is made again and again succeeds at some time;    *)
(* what the user does is not constrained.  One content script has at most  *)
(* one SAVE_VIDEO pending, so the worker taking its index step whenever it *)
(* stays enabled is the same as indexing being empty again and again.      *)
(***************************************************************************)
\* Another video of the author of PageBo, and one of another author.
PageBoNext == [author |-> TxtBo, url |-> "video", id |-> Id123, caption |-> TxtDo,
               hashtags |-> <<>>]
PageAliceVideo == [author |-> TxtAlice, url |-> "video", id |-> <<56>>, caption |-> TxtAo,
                   hashtags |-> <<>>]
IndexablePages == {PageBo, PageBoNext, PageAliceVideo}

InitDone == ContentInit(TRUE)
       /\ UNCHANGED <<popupVars, quotaVars, settingsVars, handleVars, analyzeVars,
                      tokenizerVars, queueVars, clearVars, pollVars>>
Poll == IntervalCheckVideo
       /\ UNCHANGED <<popupVars, quotaVars, settingsVars, handleVars, analyzeVars,
                      tokenizerVars, queueVars, clearVars, pollVars>>
UrlLookup(found) ==
    CheckVideoUrl(found, TRUE)
           /\ UNCHANGED <<popupVars, quotaVars, lifecycleVars, settingsVars, handleVars,
                          analyzeVars, tokenizerVars, queueVars, clearVars, pollVars>>
VideoSaved ==
    CheckVideoSaved(FALSE)
           /\ UNCHANGED <<popupVars, quotaVars, lifecycleVars, settingsVars, handleVars,
                          analyzeVars, tokenizerVars, queueVars, clearVars, pollVars>>
VideoIndexed == \E videoData \in indexing : SaveVideoIndex(videoData) /\ UNCHANGED outside

NextIndexLive ==
    \/ InitDone
    \/ \E p \in IndexablePages : ShowVideo(p)
           /\ UNCHANGED <<popupVars, quotaVars, lifecycleVars, settingsVars, handleVars,
                          analyzeVars, tokenizerVars, queueVars, clearVars, pollVars>>
    \/ LocationChanged
           /\ UNCHANGED <<popupVars, quotaVars, lifecycleVars, settingsVars, handleVars,
                          analyzeVars, tokenizerVars, queueVars, clearVars, pollVars>>
    \/ Poll
    \/ \E found \in BOOLEAN : UrlLookup(found)
    \/ VideoSaved
    \/ VideoIndexed

SpecIndexLive ==
    /\ Init
    /\ [][NextIndexLive]_vars
    /\ WF_vars(InitDone)
    /\ WF_vars(Poll)
    /\ WF_vars(\E found \in BOOLEAN : UrlLookup(found))
    /\ SF_vars(UrlLookup(TRUE))
    /\ WF_vars(VideoSaved)
    /\ []<>(indexing = {})

\* C26: while the tab is visible and the polling runs, a video that is the
\* active one and whose id is not indexed yet either stops being the
\* active one or eventually has SAVE_VIDEO sent for its id (the id is added
\* to indexedVideoIds in the step that sends the message), also when its
\* author is the author of the video processed before it and when an
\* earlier URL lookup for it failed.
ViewedVideoIndexed ==
    \A p \in IndexablePages :
        (page = p /\ activeIntervalId /\ ~hidden) ~> (page # p \/ p.id \in indexedVideoIds)

\* The state the two cases end in: the polling runs, no checkVideo call is
\* in progress, the active video is not indexed, and every further
\* checkVideo call returns at `author === lastAuthor`.
LeftBehind ==
    /\ activeIntervalId /\ ~hidden
    /\ checking = Idle /\ ~isProcessing
    /\ page \in IndexablePages
    /\ page.id \notin indexedVideoIds
    /\ page.author = lastAuthor

NoVideoLeftBehind == ~LeftBehind

(***************************************************************************)
(* Lazy initialisation of the worker's handle.  The specifications above   *)
(* take the first line of each operation, `if (!db) await initDB()`, as    *)
(* passed; here every operation is followed from its call to its first     *)
(* db.transaction(...), which throws a TypeError when db is null.          *)
(***************************************************************************)
\* The operations the listener, the startup code and the hourly timer call.
PublicOperations ==
    {"saveVideo", "saveFrame", "searchVideos", "getFrameCount", "getFramesForVideo",
     "getFrameData", "clearAllData", "getAllVideos", "saveThumbnail",
     "getThumbnailsForVideo", "getStats", "analyzeSavedFrame", "cleanupOldFrames",
     "checkDBSize"}

\* Mutant of lazyInitFirst: searchVideos does not open the store.
lazyInitFirstButSearch == PublicOperations \ {"searchVideos"}

\* The functions of the worker that begin with `if (!db) await initDB()`.
lazyInitFirst ==
    {"saveVideo", "saveFrame", "searchVideos", "getFrameCount", "getFramesForVideo",
     "getFrameData", "clearAllData", "getAllVideos", "saveThumbnail",
     "getThumbnailsForVideo", "getStats", "analyzeSavedFrame", "cleanupOldFrames",
     "checkDBSize"}

\* A call of op: at is "opening" while it awaits its own initDB(), "ready"
\* before its first db.transaction, "accessed" after it, "failed" when its
\* initDB() rejected, "typeError" when db.transaction was reached with db
\* null.  opened tells whether the call awaited an initDB() of its own.
Call(op, at, opened) == [op |-> op, at |-> at, opened |-> opened]

\* An operation is called: by a message, by the startup code or by the timer.
CallOperation(op) ==
    /\ Cardinality(calls) < MaxCalls
    /\ calls' = calls \cup {IF op \in lazyInitFirst /\ db = "null"
                            THEN Call(op, "opening", TRUE)
                            ELSE Call(op, "ready", FALSE)}
    /\ UNCHANGED <<db, startup, restarts>>

\* The indexedDB.open request of a call's initDB() ends: onsuccess sets db
\* and resolves, onerror rejects.
CallOpened(call, ok) ==
    /\ call \in calls
    /\ call.at = "opening"
    /\ db' = IF ok THEN "open" ELSE db
    /\ calls' = (calls \ {call}) \cup {Call(call.op, IF ok THEN "ready" ELSE "failed", TRUE)}
    /\ UNCHANGED <<startup, restarts>>

\* The indexedDB.open request of the startup initDB() ends.
StartupOpened(ok) ==
    /\ startup = "opening"
    /\ db' = IF ok THEN "open" ELSE db
    /\ startup' = IF ok THEN "done" ELSE "failed"
    /\ UNCHANGED <<calls, restarts>>

\* The call reaches its first db.transaction(...).
FirstAccess(call) ==
    /\ call \in calls
    /\ call.at = "ready"
    /\ calls' = (calls \ {call})
                  \cup {Call(call.op, IF db = "null" THEN "typeError" ELSE "accessed",
                              call.opened)}
    /\ UNCHANGED <<db, startup, restarts>>

\* The call returns or rejects.
CallEnds(call) ==
    /\ call \in calls
    /\ call.at \in {"accessed", "failed", "typeError"}
    /\ calls' = calls \ {call}
    /\ UNCHANGED <<db, startup, restarts>>

\* The browser stops the worker and starts it again: the script runs from
\* the top, with db null and a new startup initDB(); the calls that were
\* under way are gone with the old instance.
Restart ==
    /\ restarts < MaxRestarts
    /\ restarts' = restarts + 1
    /\ db' = "null"
    /\ startup' = "opening"
    /\ calls' = {}

lazyOutside == <<workerVars, thumbsSaved, contentVars, popupVars, quotaVars, lifecycleVars,
                 settingsVars, analyzeVars, tokenizerVars, queueVars, clearVars, pollVars>>

NextLazyInit ==
    \/ \E op \in PublicOperations : CallOperation(op) /\ UNCHANGED lazyOutside
    \/ \E call \in calls, ok \in BOOLEAN : CallOpened(call, ok) /\ UNCHANGED lazyOutside
    \/ \E ok \in BOOLEAN : StartupOpened(ok) /\ UNCHANGED lazyOutside
    \/ \E call \in calls : FirstAccess(call) /\ UNCHANGED lazyOutside
    \/ \E call \in calls : CallEnds(call) /\ UNCHANGED lazyOutside
    \/ Restart /\ UNCHANGED lazyOutside

SpecLazyInit == Init /\ [][NextLazyInit]_vars

\* C27: for every public operation and every arrival order relative to the
\* startup initDB, a restart of the worker included, a call that reaches
\* its first store access finds the store open (it has opened it itself
\* when nobody had), and no call fails on a null handle.
LazyInitialization ==
    \A call \in calls :
        /\ call.at # "typeError"
        /\ call.at \in {"ready", "accessed"} => db = "open"

\* C27 witness: after a restart, while the startup initDB() is still
\* pending, a call has opened the store itself and accessed it, and
\* another call that arrived after it found the handle set.
LazyInitializationWitness ==
    /\ restarts > 0
    /\ startup = "opening"
    /\ \E call \in calls : call.at = "accessed" /\ call.opened
    /\ \E call \in calls : call.at = "accessed" /\ ~call.opened

(***************************************************************************)
(* SpecProtocol: the listener of the worker with store requests that fail. *)
(***************************************************************************)
\* updateInvertedIndex when the put of the last token fails: store.put is
\* issued without handlers and the promise of that token is resolved right
\* after it, so saveVideo returns before the failure; the transaction is
\* aborted, none of its puts stays, and the response is the one of success.
SaveVideoIndexAborted(videoData) ==
    /\ videoData \in indexing
    /\ LET tokens == videoTokens(videoData)
       IN  /\ tokens # <<>>
           /\ LET last == tokens[Len(tokens)]
              IN  IF last \in DOMAIN invertedIndex
                  THEN videoData.id \notin Range(invertedIndex[last])
                  ELSE TRUE
    /\ indexing' = indexing \ {videoData}
    /\ reply' = Response("SAVE_VIDEO", videoData, TRUE, "Video saved", <<>>)
    /\ UNCHANGED <<now, videos, frames, thumbnails, invertedIndex, framesToStore, cleanups>>

\* The default case of the listener's switch.
ListenerDefault(action) ==
    /\ action \notin Served
    /\ reply' = Response(action, <<>>, FALSE, "Unknown action", <<>>)
    /\ UNCHANGED <<now, videos, frames, thumbnails, invertedIndex, indexing, framesToStore,
                   cleanups>>

NextProtocol ==
    \/ \E putOk \in BOOLEAN : SaveVideoBegin(Item7, putOk) /\ UNCHANGED outside
    \/ \E videoData \in indexing : SaveVideoIndex(videoData) /\ UNCHANGED outside
    \/ \E videoData \in indexing : SaveVideoIndexAborted(videoData) /\ UNCHANGED outside
    \/ \E analysed \in BOOLEAN, indexOk \in BOOLEAN :
           SaveFrameBegin(FrameData(Id7, now, "Array"), analysed, indexOk, AnalysisAoDo)
           /\ UNCHANGED outside
    \/ \E frameToStore \in framesToStore, putOk \in BOOLEAN :
           SaveFramePut(frameToStore, putOk) /\ UNCHANGED outside
    \/ SaveThumbnail(ThumbData(Id7, now)) /\ UNCHANGED outside
    \/ \E query \in Queries : Search(query) /\ UNCHANGED outside
    \/ ListenerDefault("GET_FRAME_BLOB") /\ UNCHANGED outside
    \/ Tick(MaxNow) /\ UNCHANGED outside

SpecProtocol == Init /\ [][NextProtocol]_vars

\* Every token is posted for videoId.
posted(tokens, videoId) ==
    \A token \in Range(tokens) :
        token \in DOMAIN invertedIndex /\ videoId \in Range(invertedIndex[token])

\* C28: an unknown action is answered { success: false, error: 'Unknown
\* action' }, and a store operation that fails inside a handler is answered
\* as a failure: a response of success to SAVE_VIDEO or SAVE_FRAME means
\* that what the handler writes is in the stores (nothing is deleted in
\* SpecProtocol).
StoreFailureSurfaced ==
    /\ reply.action \notin Served \cup {"none"} =>
           ~reply.success /\ reply.message = "Unknown action"
    /\ (reply.action = "SAVE_VIDEO" /\ reply.success) =>
           /\ reply.data.id \in DOMAIN videos
           /\ reply.message = "Video saved" => posted(videoTokens(reply.data), reply.data.id)
    /\ (reply.action = "SAVE_FRAME" /\ reply.success) =>
           /\ reply.data \in DOMAIN frames
           /\ frames[reply.data].hasAnalysis =>
                  posted(analysisTokens(frames[reply.data].analysis), frames[reply.data].videoId)

\* The parts of C28 about SAVE_VIDEO and about the default case.
SaveVideoFailureSurfaced ==
    (reply.action = "SAVE_VIDEO" /\ reply.success /\ reply.message = "Video saved") =>
        posted(videoTokens(reply.data), reply.data.id)

UnknownActionAnswered ==
    reply.action \notin Served \cup {"none"} =>
        ~reply.success /\ reply.message = "Unknown action"

(***************************************************************************)
(* SpecHydration: searches while videos are saved and while frames of a    *)
(* video that has no record are analysed, which posts its id.              *)
(***************************************************************************)
NextHydration ==
    \/ \E videoData \in {Item7, Item123} :
           SaveVideoBegin(videoData, TRUE) /\ UNCHANGED outside
    \/ \E videoData \in indexing : SaveVideoIndex(videoData) /\ UNCHANGED outside
    \/ \E videoId \in {Id7, Id123} :
           SaveFrameBegin(FrameData(videoId, now, "Array"), TRUE, TRUE, AnalysisAoDo)
           /\ UNCHANGED outside
    \/ \E frameToStore \in framesToStore :
           SaveFramePut(frameToStore, TRUE) /\ UNCHANGED outside
    \/ \E query \in Queries : Search(query) /\ UNCHANGED outside

SpecHydration == Init /\ [][NextHydration]_vars

\* The place of id in ids (0 when absent).
placeOf(ids, id) ==
    IF \E i \in 1..Len(ids) : ids[i] = id THEN CHOOSE i \in 1..Len(ids) : ids[i] = id ELSE 0

\* C29: a search succeeds, and its result holds the stored record of every
\* score-sorted id that has one, once each and in the order of the sorted
\* ids; an id of a posting without a record in videos is skipped.
SearchHydration ==
    [][ (reply'.action = "SEARCH" /\ reply' # reply) =>
          LET ids == sortedIds(invertedIndex', tokensOfQuery[reply'.data])
              result == reply'.videos
          IN  /\ reply'.success
              /\ \A i \in 1..Len(result) :
                     /\ result[i].id \in DOMAIN videos'
                     /\ result[i] = videos'[result[i].id]
                     /\ placeOf(ids, result[i].id) > 0
              /\ \A i \in 1..Len(result), j \in 1..Len(result) :
                     i < j => placeOf(ids, result[i].id) < placeOf(ids, result[j].id)
              /\ \A k \in 1..Len(ids) :
                     ids[k] \in DOMAIN videos' => \E i \in 1..Len(result) : result[i].id = ids[k]
      ]_vars

\* C29 witness: "ao do" was searched when the postings held item 7, first in
\* the order of scores, without a record of it, and item 123 with one; the
\* answer is a success with item 123 alone.
SearchHydrationWitness ==
    /\ reply.action = "SEARCH" /\ reply.data = TxtAoDo /\ reply.success
    /\ sortedIds(invertedIndex, tokensOfQuery[TxtAoDo]) = <<Id7, Id123>>
    /\ Id7 \notin DOMAIN videos
    /\ reply.videos = <<Item123>>

(***************************************************************************)
(* SpecOptions: the options page alone: the user toggles, types into the   *)
(* two number fields and presses Save.                                     *)
(***************************************************************************)
\* "", "0", "1", "5", "20", "21", "-1" and "x" in the frameCap field.
FrameCapEntries ==
    {<<>>, <<48>>, <<49>>, <<53>>, <<50, 48>>, <<50, 49>>, <<45, 49>>, <<120>>}

\* "", "0", "0.05", "0.1", "0.7", "1" and "1.5" in the webpQuality field.
WebpQualityEntries ==
    {<<>>, <<48>>, <<48, 46, 48, 53>>, <<48, 46, 49>>, <<48, 46, 55>>, <<49>>,
     <<49, 46, 53>>}

NextOptions ==
    \/ ToggleSetting /\ UNCHANGED optionsOutside
    \/ \E text \in FrameCapEntries : EditFrameCap(text) /\ UNCHANGED optionsOutside
    \/ \E text \in WebpQualityEntries : EditWebpQuality(text) /\ UNCHANGED optionsOutside
    \/ \E setOk \in BOOLEAN : SaveSettings(setOk) /\ UNCHANGED optionsOutside

SpecOptions == Init /\ [][NextOptions]_vars

\* The number in a field is outside lo..hi.
entryOutside(parsed, lo, hi) == ~parsed.nan /\ (parsed.value < lo \/ parsed.value > hi)

\* C30: saveSettings with a frameCap outside 1..20 or a webpQuality outside
\* 0.1..1.0 in the page calls chrome.storage.sync.set with nothing and
\* leaves the stored settings as they are.
OutOfRangeWritesNothing ==
    [][ (\/ entryOutside(parseInt(form.frameCap), 1, 20)
         \/ entryOutside(parseFloat(form.webpQuality), 10, 100))
        => (writes' = writes /\ settings' = settings) ]_vars

\* The parts of OutOfRangeWritesNothing, one per field.
FrameCapOutOfRangeWritesNothing ==
    [][ entryOutside(parseInt(form.frameCap), 1, 20)
        => (writes' = writes /\ settings' = settings) ]_vars
WebpQualityOutOfRangeWritesNothing ==
    [][ entryOutside(parseFloat(form.webpQuality), 10, 100)
        => (writes' = writes /\ settings' = settings) ]_vars

\* The second half of C30: the stored frameCap is an integer in 1..20 and
\* the stored webpQuality is in 0.1..1.0.
StoredSettingsInRange ==
    /\ stored("frameCap", 5) \in 1..20
    /\ stored("webpQuality", 70) \in 10..100

\* A 0 in the frameCap field was saved as 5.
ZeroSavedAsDefault ==
    /\ form.frameCap = <<48>>
    /\ "frameCap" \in DOMAIN settings /\ settings.frameCap = 5

(***************************************************************************)
(* analyzeSavedFrame.  The call opens one readwrite transaction on frames  *)
(* and invertedIndex, reads the frame in it, awaits the vision call, and   *)
(* puts the frame through the object store of that same transaction.  An   *)
(* IndexedDB transaction commits once control returns to the event loop    *)
(* and none of its requests is pending, so it has finished by the time the *)
(* HTTP response of the vision call arrives.                               *)
(***************************************************************************)
\* The call between its awaits: "vision" while the fetch is under way,
\* "returned" once analyzeImageWithCloudVision has resolved.
AnalyzeCall(frameKey_, frame, at, transaction, analysed, analysis) ==
    [frameKey |-> frameKey_, frame |-> frame, at |-> at, transaction |-> transaction,
     analysed |-> analysed, analysis |-> analysis]

\* The ArrayBuffer analyzeSavedFrame makes of the stored frame.blobData.
imageOf(blobData) ==
    CASE blobData = "ArrayBuffer" -> "ArrayBuffer"
      [] blobData = "ByteLength"  -> "ArrayBuffer"
      [] OTHER                    -> "null"

\* analyzeSavedFrame up to the vision call.  apiKey is whether
\* chrome.storage.sync holds a cloudVisionApiKey.
AnalyzeFrameBegin(frameKey_, apiKey) ==
    /\ InFlight + Cardinality(analyzing) < MaxInFlight
    /\ IF ~apiKey
       THEN /\ reply' = Response("ANALYZE_FRAME", frameKey_, FALSE,
                                 "Cloud Vision API key not configured", <<>>)
            /\ UNCHANGED analyzing
       ELSE IF frameKey_ \notin DOMAIN frames
       THEN /\ reply' = Response("ANALYZE_FRAME", frameKey_, FALSE, "Frame not found", <<>>)
            /\ UNCHANGED analyzing
       ELSE IF imageOf(frames[frameKey_].blobData) = "null"
       THEN /\ reply' = Response("ANALYZE_FRAME", frameKey_, FALSE,
                                 "Frame image data not available", <<>>)
            /\ UNCHANGED analyzing
       ELSE /\ analyzing' = analyzing \cup
                   {AnalyzeCall(frameKey_, frames[frameKey_], "vision", "active", FALSE,
                                NoAnalysis)}
            /\ UNCHANGED reply
    /\ UNCHANGED <<now, videos, frames, thumbnails, invertedIndex, indexing, framesToStore,
                   cleanups>>

\* The vision call resolves, with a result (analysed) or with null.  The
\* worker went back to the event loop meanwhile: the transaction of the
\* call has no pending request and has committed.
VisionReturns(call, analysed, analysis) ==
    /\ call \in analyzing /\ call.at = "vision"
    /\ analyzing' = (analyzing \ {call}) \cup
           {AnalyzeCall(call.frameKey, call.frame, "returned", "finished", analysed,
                        IF analysed THEN analysis ELSE NoAnalysis)}
    /\ UNCHANGED workerVars

\* The rest of analyzeSavedFrame.  frameStore.put throws when the
\* transaction of frameStore is not active; the catch answers with the
\* message of the error.
AnalyzeFrameUpdate(call, putOk) ==
    /\ call \in analyzing /\ call.at = "returned"
    /\ analyzing' = analyzing \ {call}
    /\ IF ~call.analysed
       THEN /\ reply' = Response("ANALYZE_FRAME", call.frameKey, FALSE,
                                 "Analysis failed - API request returned no results", <<>>)
            /\ UNCHANGED <<frames, invertedIndex>>
       ELSE IF call.transaction # "active"
       THEN /\ reply' = Response("ANALYZE_FRAME", call.frameKey, FALSE,
                                 "TransactionInactiveError", <<>>)
            /\ UNCHANGED <<frames, invertedIndex>>
       ELSE IF ~putOk
       THEN /\ reply' = Response("ANALYZE_FRAME", call.frameKey, FALSE, "error", <<>>)
            /\ UNCHANGED <<frames, invertedIndex>>
       ELSE /\ frames' = Put(frames, call.frameKey,
                             [call.frame EXCEPT !.hasAnalysis = TRUE,
                                                !.analysis = call.analysis])
            /\ invertedIndex' = updateInvertedIndex(invertedIndex, call.frame.videoId,
                                                    analysisTokens(call.analysis))
            /\ reply' = Response("ANALYZE_FRAME", call.frameKey, TRUE, "", <<>>)
    /\ UNCHANGED <<now, videos, thumbnails, indexing, framesToStore, cleanups>>

analyzeOutside == <<thumbsSaved, contentVars, popupVars, quotaVars, lifecycleVars, settingsVars,
                    handleVars, tokenizerVars, queueVars, clearVars, pollVars>>

(***************************************************************************)
(* SpecAnalyze: frames of item 7 are stored without analysis, with image   *)
(* bytes or without, and analysed on demand.                               *)
(***************************************************************************)
NextAnalyze ==
    \/ SaveVideoBegin(Item7, TRUE) /\ UNCHANGED outside
    \/ \E videoData \in indexing : SaveVideoIndex(videoData) /\ UNCHANGED outside
    \/ \E blob \in {"Array", "Absent"} :
           SaveFrameBegin(FrameData(Id7, now, blob), FALSE, TRUE, NoAnalysis)
           /\ UNCHANGED outside
    \/ \E frameToStore \in framesToStore :
           SaveFramePut(frameToStore, TRUE) /\ UNCHANGED outside
    \/ \E ts \in 0..MaxNow, apiKey \in BOOLEAN :
           AnalyzeFrameBegin(frameKey(Id7, ts), apiKey) /\ UNCHANGED analyzeOutside
    \/ \E call \in analyzing, analysed \in BOOLEAN :
           VisionReturns(call, analysed, AnalysisAoDo) /\ UNCHANGED analyzeOutside
    \/ \E call \in analyzing, putOk \in BOOLEAN :
           AnalyzeFrameUpdate(call, putOk) /\ UNCHANGED analyzeOutside
    \/ Tick(MaxNow) /\ UNCHANGED outside

SpecAnalyze == Init /\ [][NextAnalyze]_vars

\* An analyzeSavedFrame call whose vision call returned a result ends.
analysisEnds(call) == call \in analyzing /\ call.analysed /\ call \notin analyzing'

\* C31: when the API key is configured, the frame exists with image data
\* and the vision call returned a result, analyzeSavedFrame answers with a
\* success, the stored frame then carries the analysis, and the posting of
\* every token of the analysis holds the frame's videoId.
OnDemandAnalysis ==
    [][ \A call \in analyzing :
          analysisEnds(call) =>
              /\ reply' = Response("ANALYZE_FRAME", call.frameKey, TRUE, "", <<>>)
              /\ call.frameKey \in DOMAIN frames'
              /\ frames'[call.frameKey].hasAnalysis
              /\ frames'[call.frameKey].analysis = call.analysis
              /\ posted(analysisTokens(call.analysis), call.frame.videoId)'
      ]_vars

\* The first part of OnDemandAnalysis alone: the answer is a success.
OnDemandAnalysisSucceeds ==
    [][ \A call \in analyzing : analysisEnds(call) => reply'.success ]_vars

\* No analyzeSavedFrame call ever attaches an analysis to a stored frame.
OnDemandAnalysisNeverStored ==
    [][ \A call \in analyzing :
          call \notin analyzing' => (frames' = frames /\ invertedIndex' = invertedIndex) ]_vars

(***************************************************************************)
(* updateInvertedIndex called again, checked under SpecRace, where frames  *)
(* of item 7 are analysed at several instants with the same result and the *)
(* record of item 7 is indexed with tokens of that result.                 *)
(***************************************************************************)
\* The arguments <<videoId, tokens>> of the updateInvertedIndex calls that
\* have completed: those of saveVideo for the records that are no longer
\* being indexed, and those of saveFrame for the analysed frames.
completedIndexCalls ==
    {<<id, videoTokens(videos[id])>> : id \in {i \in DOMAIN videos : videos[i] \notin indexing}}
    \cup {<<f.videoId, analysisTokens(f.analysis)>> : f \in {x \in framesSent : x.hasAnalysis}}

\* No id stands twice in ids.
distinctIds(ids) == \A i \in 1..Len(ids), j \in 1..Len(ids) : i # j => ids[i] # ids[j]

NextPostings ==
    \/ \E videoData \in {Item7, Item123} :
           SaveVideoBegin(videoData, TRUE) /\ UNCHANGED outside
    \/ \E videoData \in indexing : SaveVideoIndex(videoData) /\ UNCHANGED outside
    \/ \E videoData \in indexing : SaveVideoIndexAborted(videoData) /\ UNCHANGED outside
    \/ \E indexOk \in BOOLEAN :
           SaveFrameBegin(FrameData(Id7, 0, "Array"), TRUE, indexOk, AnalysisAoDo)
           /\ UNCHANGED outside
    \/ \E frameToStore \in framesToStore :
           SaveFramePut(frameToStore, TRUE) /\ UNCHANGED outside
    \/ AnalyzeFrameBegin(frameKey(Id7, 0), TRUE) /\ UNCHANGED analyzeOutside
    \/ \E call \in analyzing :
           VisionReturns(call, TRUE, AnalysisAoDo) /\ UNCHANGED analyzeOutside
    \/ \E call \in analyzing :
           AnalyzeFrameUpdate(call, TRUE) /\ UNCHANGED analyzeOutside
    \/ SaveThumbnail(ThumbData(Id7, 0)) /\ UNCHANGED outside
    \/ CleanupFrames /\ UNCHANGED outside
    \/ CleanupThumbnails(1) /\ UNCHANGED outside
    \/ Tick(MaxContentNow) /\ UNCHANGED outside

SpecPostings == Init /\ [][NextPostings]_vars

\* C33: across every step of saveVideo, saveFrame, analyzeSavedFrame,
\* saveThumbnail and retention, every token that has a posting keeps it and
\* every id of a posting stays in it: postings only grow.
PostingMonotonicity ==
    [][ \A token \in DOMAIN invertedIndex :
          /\ token \in DOMAIN invertedIndex'
          /\ Range(invertedIndex[token]) \subseteq Range(invertedIndex'[token]) ]_vars

\* C33 witness: the posting of "ao" holds items 7 and 123, both written by
\* saveVideo, after a frame of item 7 was stored and the retention cleanup
\* deleted it again.
PostingMonotonicityWitness ==
    /\ TxtAo \in DOMAIN invertedIndex
    /\ Range(invertedIndex[TxtAo]) = {Id7, Id123}
    /\ cleanups # <<>>
    /\ frames = EmptyStore /\ framesToStore = {}
    /\ reply.action = "SAVE_FRAME" /\ reply.success

(***************************************************************************)
(* SpecTokenizer: extractTokens on every text of at most MaxTextLen code   *)
(* units over a, A, a-acute, the combining acute accent, the space and the *)
(* tab.  The empty text stands for '' and for null: normalizeText returns  *)
(* [] for both.                                                            *)
(***************************************************************************)
Alphabet == {97, 65, 225, 769, 32, 9}

\* The caller builds the text, one code unit at a time.
TypeChar(c) ==
    /\ Len(textInput) < MaxTextLen
    /\ textInput' = Append(textInput, c)
    /\ UNCHANGED tokenized

\* extractTokens(text)
Tokenize ==
    /\ tokenized' = [text |-> textInput, tokens |-> extractTokens(textInput)]
    /\ UNCHANGED textInput

tokenizerOutside == <<workerVars, thumbsSaved, contentVars, popupVars, quotaVars, lifecycleVars,
                      settingsVars, handleVars, analyzeVars, queueVars, clearVars, pollVars>>

NextTokenizer ==
    \/ \E c \in Alphabet : TypeChar(c) /\ UNCHANGED tokenizerOutside
    \/ Tokenize /\ UNCHANGED tokenizerOutside

SpecTokenizer == Init /\ [][NextTokenizer]_vars

\* The whitespace-separated pieces of a text: its maximal runs of code units
\* that are not whitespace.
pieces(n) ==
    {SubSeq(n, p[1], p[2]) :
        p \in {q \in (1..Len(n)) \X (1..Len(n)) :
                 /\ q[1] <= q[2]
                 /\ \A k \in q[1]..q[2] : ~isWhitespace(n[k])
                 /\ (q[1] = 1 \/ isWhitespace(n[q[1] - 1]))
                 /\ (q[2] = Len(n) \/ isWhitespace(n[q[2] + 1]))}}

\* C34: extractTokens(text) returns exactly the whitespace-separated pieces
\* of the lowercased, decomposed, mark-stripped text that have at least two
\* code units, each once; the empty text gives no token; and the tokens
\* joined by spaces give the same set of tokens again.
TokenizerCorrect ==
    LET stripped == removeDiacritics(normalizeNFD(toLowerCase(tokenized.text)))
        tokens == tokenized.tokens
    IN  /\ Range(tokens) = {piece \in pieces(stripped) : Len(piece) >= 2}
        /\ \A i \in 1..Len(tokens), j \in 1..Len(tokens) : i # j => tokens[i] # tokens[j]
        /\ tokenized.text = <<>> => tokens = <<>>
        /\ Range(extractTokens(join(tokens))) = Range(tokens)

\* C34 witness: "aA\tAa-acute" was tokenized: its two pieces are both "aa"
\* once lowercased and stripped, and the result is that token once.
TokenizerCorrectWitness ==
    /\ tokenized.text = <<97, 65, 9, 65, 225>>
    /\ tokenized.tokens = <<(<<97, 97>>)>>

(***************************************************************************)
(* SpecThumbBound: saveThumbnail calls that overlap.  Each call creates a  *)
(* readwrite transaction on thumbnails and issues getAll, the deletes and  *)
(* the put inside it, each from the callback of the request before; the    *)
(* transactions of overlapping calls have the same scope, so IndexedDB     *)
(* runs them one after the other, in the order of their creation.  The     *)
(* calls are for item 7, with one key more than MAX_THUMBS_PER_VIDEO to    *)
(* choose from; the retention cleanup runs in between.                     *)
(***************************************************************************)
\* saveThumbnail up to db.transaction(...): the transaction is created.
SaveThumbnailStart(thumbData) ==
    /\ Len(thumbQueue) < MaxInFlight
    /\ thumbQueue' = Append(thumbQueue, thumbData)
    /\ UNCHANGED workerVars

\* The oldest waiting transaction runs: getAll, the deletes, the put.
\* putOk = FALSE is a put that fails: the transaction is aborted and its
\* deletes are undone.
SaveThumbnailRun(putOk) ==
    /\ thumbQueue # <<>>
    /\ thumbQueue' = Tail(thumbQueue)
    /\ IF putOk
       THEN SaveThumbnail(Head(thumbQueue))
       ELSE /\ reply' = Response("SAVE_THUMBNAIL", Head(thumbQueue).key, FALSE, "error", <<>>)
            /\ UNCHANGED <<now, videos, frames, thumbnails, invertedIndex, indexing,
                           framesToStore, cleanups>>

queueOutside == <<thumbsSaved, contentVars, popupVars, quotaVars, lifecycleVars, settingsVars,
                  handleVars, analyzeVars, tokenizerVars, clearVars, pollVars>>

NextThumbBound ==
    \/ \E keyTime \in 0..MAX_THUMBS_PER_VIDEO :
           SaveThumbnailStart(ThumbDataAt(Id7, keyTime, now)) /\ UNCHANGED queueOutside
    \/ \E putOk \in BOOLEAN : SaveThumbnailRun(putOk) /\ UNCHANGED queueOutside
    \/ CleanupFrames /\ UNCHANGED outside
    \/ CleanupThumbnails(1) /\ UNCHANGED outside
    \/ Tick(MaxContentNow) /\ UNCHANGED outside

SpecThumbBound == Init /\ [][NextThumbBound]_vars

\* C35: in every reachable state the number of thumbnails stored for one
\* videoId is at most MAX_THUMBS_PER_VIDEO, whatever calls overlap and
\* whatever keys are saved again.
ThumbnailBound ==
    \A videoId \in {Id7} :
        Cardinality(thumbsOf(thumbnails, videoId)) <= MAX_THUMBS_PER_VIDEO

\* C35 witness: item 7 has MAX_THUMBS_PER_VIDEO thumbnails, the last call
\* saved a key again that is stored with another ts, and two more calls for
\* item 7 wait for their transactions.
ThumbnailBoundWitness ==
    /\ Cardinality(thumbsOf(thumbnails, Id7)) = MAX_THUMBS_PER_VIDEO
    /\ reply.action = "SAVE_THUMBNAIL" /\ reply.success
    /\ reply.data \in DOMAIN thumbnails
    /\ thumbnails[reply.data].videoId = Id7
    /\ thumbnails[reply.data].ts > 0
    /\ reply.data = thumbKey(Id7, 0)
    /\ Len(thumbQueue) = 2
    /\ \A i \in 1..2 : thumbQueue[i].videoId = Id7

(***************************************************************************)
(* The while loop of medianCut, checked under SpecColors.  A pass computes *)
(* the new boxes from boxes alone, so a pass that leaves boxes as they are *)
(* is followed by the same pass again, without end.                        *)
(***************************************************************************)
\* The condition of the while loop.
loopContinues == Len(boxes) < numColors /\ Len(boxes) < Len(pixels)

\* C36: for every non-empty sample and every numColors >= 1 the splitting
\* loop of medianCut terminates: whenever the loop takes another pass, the
\* pass changes boxes (it adds at least one box), so the bound on the number
\* of boxes ends the loop.
MedianCutTerminates ==
    (colorStep = "medianCut" /\ Len(pixels) # 0 /\ loopContinues)
    => Len(splitBoxes(boxes)) > Len(boxes)

\* The same for the samples the claim names: all pixels of the same color.
MedianCutTerminatesMonochrome ==
    (/\ colorStep = "medianCut" /\ Len(pixels) # 0 /\ loopContinues
     /\ \A i \in 1..Len(pixels) : pixels[i] = pixels[1])
    => splitBoxes(boxes) # boxes

\* The loop ends for every sample of pairwise different pixels.
MedianCutTerminatesDistinct ==
    (/\ colorStep = "medianCut" /\ Len(pixels) # 0 /\ loopContinues
     /\ \A i \in 1..Len(pixels), j \in 1..Len(pixels) : i # j => pixels[i] # pixels[j])
    => Len(splitBoxes(boxes)) > Len(boxes)

(***************************************************************************)
(* SpecReingest: the browser stops the worker while saveVideo calls are    *)
(* between their two transactions, and the content script of a page that   *)
(* is loaded afterwards sends the videos again.                            *)
(***************************************************************************)
\* The worker is stopped and started again.  What the transactions that
\* completed have written stays; the calls that were under way are gone,
\* and so is what they had not done yet.
WorkerStops ==
    /\ Restart
    /\ indexing' = {}
    /\ framesToStore' = {}
    /\ cleanups' = <<>>
    /\ UNCHANGED <<now, videos, frames, thumbnails, invertedIndex, reply>>

stopOutside == <<thumbsSaved, contentVars, popupVars, quotaVars, lifecycleVars, settingsVars,
                 analyzeVars, tokenizerVars, queueVars, clearVars, pollVars>>

NextReingest ==
    \/ \E videoData \in {Item7, Item123}, putOk \in BOOLEAN :
           SaveVideoBegin(videoData, putOk) /\ UNCHANGED outside
    \/ \E videoData \in indexing : SaveVideoIndex(videoData) /\ UNCHANGED outside
    \/ \E query \in Queries : Search(query) /\ UNCHANGED outside
    \/ Tick(MaxNow) /\ UNCHANGED outside
    \/ WorkerStops /\ UNCHANGED stopOutside

SpecReingest == Init /\ [][NextReingest]_vars

\* This step is saveVideo answering a call for videoData with a success,
\* while no call for its id is between its transactions.
answersSaveVideo(videoData) ==
    /\ reply' # reply
    /\ reply'.action = "SAVE_VIDEO" /\ reply'.data = videoData /\ reply'.success
    /\ \A other \in indexing' : other.id # videoData.id

\* Every token of tokens has a posting in index that holds videoId.
postedIn(index, tokens, videoId) ==
    \A token \in Range(tokens) :
        token \in DOMAIN index /\ videoId \in Range(index[token])

\* videoId is among the results of searchVideos(query) over vids and index.
foundIn(vids, index, query, videoId) ==
    LET results == searchVideos(vids, index, query)
    IN  \E i \in 1..Len(results) : results[i].id = videoId

\* C37: when saveVideo answers a call for an id with a success, also a call
\* that comes after the worker was stopped between the write of the item
\* and the indexing of its tokens, the postings of the item's tokens hold
\* its id.
ReingestionRestoresPostings ==
    [][ \A videoData \in {Item7, Item123} :
          answersSaveVideo(videoData)
          => postedIn(invertedIndex', videoTokens(videoData), videoData.id) ]_vars

\* The same through searchVideos: the item is among the results of a search
\* for its caption.
ReingestedItemFindable ==
    [][ \A videoData \in {Item7, Item123} :
          answersSaveVideo(videoData)
          => foundIn(videos', invertedIndex', videoData.caption, videoData.id) ]_vars

\* Before the first stop of the worker every answer of success leaves the
\* postings in place.
IngestionPostsWithoutStop ==
    [][ \A videoData \in {Item7, Item123} :
          (restarts = 0 /\ answersSaveVideo(videoData))
          => postedIn(invertedIndex', videoTokens(videoData), videoData.id) ]_vars

(***************************************************************************)
(* Postings and the videos store.  saveFrame and analyzeSavedFrame index   *)
(* the tokens of an analysis under frameData.videoId / frame.videoId; the  *)
(* content script starts the capture of frames before SAVE_VIDEO is sent   *)
(* and also for ids it never sends.                                        *)
(***************************************************************************)
\* The ids held by the postings of index.
postedIds(index) ==
    UNION {Range(index[token]) : token \in DOMAIN index}

\* C38: every id contained in a posting is the id of an item present in the
\* videos store, for any interleaving of saveVideo, saveFrame with analysis,
\* analyzeSavedFrame and retention.
PostingReferentialIntegrity ==
    postedIds(invertedIndex) \subseteq DOMAIN videos

\* The postings written by saveVideo alone refer to stored items, also when
\* the worker is stopped between its two transactions.
SaveVideoPostingsReferToItems ==
    postedIds(invertedIndex) \subseteq DOMAIN videos

(***************************************************************************)
(* CLEAR_DATA and the content script's indexedVideoIds.                    *)
(***************************************************************************)
\* The stores clearAllData clears, in its order.
ClearedStores == <<"videos", "frames", "thumbnails", "invertedIndex">>

\* One pass of the loop of clearAllData: a transaction of its own clears the
\* next store; after the last one the listener answers { success: true }.
\* The first pass is the receipt of CLEAR_DATA from the options page.
ClearAllData ==
    LET storeName == ClearedStores[clearing + 1]
    IN  /\ videos' = IF storeName = "videos" THEN EmptyStore ELSE videos
        /\ frames' = IF storeName = "frames" THEN EmptyStore ELSE frames
        /\ thumbnails' = IF storeName = "thumbnails" THEN EmptyStore ELSE thumbnails
        /\ invertedIndex' = IF storeName = "invertedIndex" THEN EmptyStore ELSE invertedIndex
        /\ IF clearing + 1 = Len(ClearedStores)
           THEN /\ clearing' = 0
                /\ reply' = Response("CLEAR_DATA", <<>>, TRUE, "", <<>>)
           ELSE /\ clearing' = clearing + 1
                /\ UNCHANGED reply
        /\ UNCHANGED <<now, indexing, framesToStore, cleanups>>

\* What the content script's steps leave alone besides lifecycleVars.
dedupOutside == <<popupVars, quotaVars, settingsVars, handleVars, analyzeVars, tokenizerVars,
                  queueVars, clearVars, pollVars>>

\* The same without pollVars.
dedupPollOutside == <<popupVars, quotaVars, settingsVars, handleVars, analyzeVars, tokenizerVars,
                      queueVars, clearVars>>

clearOutside == <<thumbsSaved, contentVars, popupVars, quotaVars, lifecycleVars, settingsVars,
                  handleVars, analyzeVars, tokenizerVars, queueVars, pollVars>>

(***************************************************************************)
(* SpecDedup: one tab's content script, the background worker and the      *)
(* options page's "clear data".                                            *)
(***************************************************************************)
NextDedup ==
    \/ \E ok \in BOOLEAN : ContentInit(ok) /\ UNCHANGED dedupOutside
    \/ \E p \in Pages \cup {NoPage} : ShowVideo(p) /\ UNCHANGED <<lifecycleVars, dedupOutside>>
    \/ LocationChanged /\ UNCHANGED <<lifecycleVars, dedupOutside>>
    \/ CheckVideoStart /\ UNCHANGED <<lifecycleVars, dedupOutside>>
    \/ \E found \in BOOLEAN, putOk \in BOOLEAN :
           CheckVideoUrl(found, putOk) /\ UNCHANGED <<lifecycleVars, dedupOutside>>
    \/ CheckVideoSaved(FALSE) /\ UNCHANGED <<lifecycleVars, dedupOutside>>
    \/ \E videoData \in indexing : SaveVideoIndex(videoData) /\ UNCHANGED outside
    \/ Tick(MaxContentNow) /\ UNCHANGED outside
    \/ ClearAllData /\ UNCHANGED clearOutside

SpecDedup == Init /\ [][NextDedup]_vars

\* The ids of the SAVE_VIDEO messages checkVideo has sent and awaits the
\* response to.
saveVideoInFlight ==
    IF checking.at = "saveVideo" THEN {checking.videoId} ELSE {}

\* C39: every entry of indexedVideoIds is the id of an item stored in the
\* videos store or of a SAVE_VIDEO in flight, also after CLEAR_DATA, after a
\* failed SAVE_VIDEO and on the short-link path.
DedupCacheConsistent ==
    indexedVideoIds \subseteq DOMAIN videos \cup saveVideoInFlight

\* The case of CLEAR_DATA: when clearAllData has cleared the videos store,
\* the ids of the items it held are not in indexedVideoIds, in-flight ids
\* apart.
DedupCacheClearedWithStore ==
    [][ (clearing = 0 /\ clearing' = 1)
        => (indexedVideoIds' \cap DOMAIN videos) \subseteq saveVideoInFlight' ]_vars

\* The case of a failed SAVE_VIDEO: when checkVideo has received a failure,
\* the id it sent is not in indexedVideoIds.
DedupCacheFailedSaveRemoved ==
    [][ (checking.at = "saveVideo" /\ checking'.at = "idle" /\ checking.page.url = "video"
         /\ reply.action = "SAVE_VIDEO" /\ reply.data.id = checking.videoId /\ ~reply.success)
        => checking.videoId \notin indexedVideoIds' ]_vars

\* The case of the short link: the entry added for a short link is the id
\* that was sent.
DedupCacheShortLinkId ==
    [][ (checking.at = "getVideoUrl" /\ checking'.at = "saveVideo" /\ checking.page.url = "short")
        => indexedVideoIds' \ indexedVideoIds = {checking'.videoId} ]_vars

(***************************************************************************)
(* The polling lifecycle of the content script: init() from                *)
(* DOMContentLoaded (or at once, when the document is past 'loading') and  *)
(* from window load, the visibilitychange listeners, the two timers of     *)
(* start() and the checkVideo calls they make.                             *)
(***************************************************************************)
\* The script is evaluated with the document past 'loading', or
\* DOMContentLoaded is dispatched: init() runs up to its await.
DOMContentLoaded ==
    /\ dispatching = 0
    /\ "DOMContentLoaded" \notin events
    /\ events' = events \cup {"DOMContentLoaded"}
    /\ inits' = inits + 1
    /\ UNCHANGED <<listeners, dispatching, checks>>
    /\ UNCHANGED <<workerVars, thumbsSaved, contentVars, lifecycleVars>>

\* window load: !isRunning && init().
WindowLoad ==
    /\ dispatching = 0
    /\ "DOMContentLoaded" \in events
    /\ "load" \notin events
    /\ events' = events \cup {"load"}
    /\ inits' = IF ~isRunning THEN inits + 1 ELSE inits
    /\ UNCHANGED <<listeners, dispatching, checks>>
    /\ UNCHANGED <<workerVars, thumbsSaved, contentVars, lifecycleVars>>

\* init() after the response to GET_ALL_VIDEOS (ok = FALSE: the message
\* failed): the ids are added, start() is called and the visibilitychange
\* listener is added.
InitContinues(ok) ==
    /\ dispatching = 0
    /\ inits > 0
    /\ inits' = inits - 1
    /\ indexedVideoIds' = IF ok THEN indexedVideoIds \cup DOMAIN videos ELSE indexedVideoIds
    /\ (isRunning \/ timeouts < MaxTimeouts) /\ start
    /\ listeners' = listeners + 1
    /\ UNCHANGED <<hidden, events, dispatching, checks>>
    /\ UNCHANGED <<page, lastAuthor, isProcessing, activeCapture, checking>>
    /\ UNCHANGED <<workerVars, thumbsSaved>>

\* visibilitychange is dispatched: document.hidden has changed and every
\* listener added so far is to run.
VisibilityChanges ==
    /\ dispatching = 0
    /\ hidden' = ~hidden
    /\ dispatching' = listeners
    /\ UNCHANGED <<isRunning, activeIntervalId, timeouts, intervals>>
    /\ UNCHANGED <<events, inits, listeners, checks>>
    /\ UNCHANGED <<workerVars, thumbsSaved, contentVars>>

\* One visibilitychange listener runs: document.hidden ? stop() : start().
VisibilityListener ==
    /\ dispatching > 0
    /\ dispatching' = dispatching - 1
    /\ IF hidden THEN stop ELSE (isRunning \/ timeouts < MaxTimeouts) /\ start
    /\ UNCHANGED <<hidden, events, inits, listeners, checks>>
    /\ UNCHANGED <<workerVars, thumbsSaved, contentVars>>

\* checkVideo from its call to its first await: the early returns, then
\* lastAuthor and isProcessing are set.
checkVideoCalled ==
    IF ~isProcessing /\ page # NoPage /\ page.author # lastAuthor
    THEN /\ lastAuthor' = page.author
         /\ isProcessing' = TRUE
         /\ checking' = CheckVideoAt("getVideoUrl", page, <<>>)
         /\ checks' = checks + 1
    ELSE UNCHANGED <<lastAuthor, isProcessing, checking, checks>>

\* A setTimeout(checkVideo, 2000) callback of start() fires.
TimeoutFires ==
    /\ dispatching = 0
    /\ timeouts > 0
    /\ timeouts' = timeouts - 1
    /\ checkVideoCalled
    /\ UNCHANGED <<hidden, isRunning, activeIntervalId, intervals>>
    /\ UNCHANGED <<page, indexedVideoIds, activeCapture, events, inits, listeners, dispatching>>
    /\ UNCHANGED <<workerVars, thumbsSaved>>

\* A live setInterval(checkVideo, CHECK_INTERVAL_MS) timer fires.
IntervalFires ==
    /\ dispatching = 0
    /\ intervals > 0
    /\ checkVideoCalled
    /\ UNCHANGED lifecycleVars
    /\ UNCHANGED <<page, indexedVideoIds, activeCapture, events, inits, listeners, dispatching>>
    /\ UNCHANGED <<workerVars, thumbsSaved>>

\* The checkVideo call goes on from an await; when it has returned (the
\* finally block has run) it is no longer past the guard.
CheckVideoGoesOn(A) ==
    /\ dispatching = 0
    /\ A
    /\ checks' = IF checking'.at = "idle" THEN checks - 1 ELSE checks
    /\ UNCHANGED <<events, inits, listeners, dispatching>>
    /\ UNCHANGED lifecycleVars

NextPolling ==
    \/ DOMContentLoaded /\ UNCHANGED dedupPollOutside
    \/ WindowLoad /\ UNCHANGED dedupPollOutside
    \/ \E ok \in BOOLEAN : InitContinues(ok) /\ UNCHANGED dedupPollOutside
    \/ VisibilityChanges /\ UNCHANGED dedupPollOutside
    \/ VisibilityListener /\ UNCHANGED dedupPollOutside
    \/ TimeoutFires /\ UNCHANGED dedupPollOutside
    \/ IntervalFires /\ UNCHANGED dedupPollOutside
    \/ \E p \in {PageBo, PageAlice, NoPage} :
           dispatching = 0 /\ ShowVideo(p) /\ UNCHANGED <<lifecycleVars, pollVars, dedupPollOutside>>
    \/ \E found \in BOOLEAN, putOk \in BOOLEAN :
           CheckVideoGoesOn(CheckVideoUrl(found, putOk)) /\ UNCHANGED dedupPollOutside
    \/ CheckVideoGoesOn(CheckVideoSaved(FALSE)) /\ UNCHANGED dedupPollOutside
    \/ \E videoData \in indexing : SaveVideoIndex(videoData) /\ UNCHANGED outside

SpecPolling == Init /\ [][NextPolling]_vars

\* C40: after any sequence of init (also invoked twice), start, stop and
\* visibilitychange events at most one polling interval is live, isRunning
\* is true exactly when activeIntervalId holds it, at most one checkVideo
\* call is past its isProcessing guard, and isProcessing is false once the
\* call has returned, by whichever path.
PollingLifecycle ==
    /\ intervals <= 1
    /\ isRunning <=> activeIntervalId
    /\ activeIntervalId <=> intervals = 1
    /\ checks <= 1
    /\ isProcessing <=> checks = 1

\* C40 witness: init() ran twice (two listeners), the polling was stopped
\* and started again by visibilitychange (a second 2-second timer is
\* pending with the interval live), and a checkVideo call is past its guard.
PollingLifecycleWitness ==
    /\ events = {"DOMContentLoaded", "load"}
    /\ inits = 0 /\ listeners = 2 /\ dispatching = 0
    /\ ~hidden /\ isRunning /\ intervals = 1
    /\ timeouts = 2
    /\ checks = 1 /\ isProcessing

====
